---- MODULE Spec2Model ----
(***************************************************************************)
(* fcopy (src/main.go): the exclusion-and-traversal engine.                *)
(*                                                                         *)
(* Strings are sequences of one-character strings (a byte each); the NUL   *)
(* byte is written "NUL".  File contents and the output buffer are         *)
(* sequences of runs [b |-> byte, n |-> count], so that a content of one   *)
(* MiB is a value the model can hold.  The backquote byte is written "BQ". *)
(***************************************************************************)
EXTENDS Integers, Sequences, FiniteSets, TLC

VARIABLES
    fs,               \* the directory tree below the walk's root: a set of entries
    excludePatterns,  \* the policy handed to processDirectory / isExcluded
    baseDisplayPath,  \* the display root of the walk
    todo,             \* WalkDir: the entries still to visit, in visiting order
    visited,          \* the relative paths the walk callback has been called with
    builder,          \* the output buffer (strings.Builder)
    stderr,           \* the diagnostics written to the side channel
    pc,               \* where the run is
    call,             \* the arguments of the function under study
    ret,              \* its result
    absDirPath,       \* the absolute root of the walk
    disk,             \* the file system: absolute path |-> what is there
    args,             \* the command line: [x, g, paths, p, f]
    globalExcludePatterns,  \* main: the patterns of -x
    targetsToProcess, \* main: the targets, in processing order
    tidx,             \* main: the number of targets the loop has taken up
    previous          \* the output buffer of the run before this one

\* The state of main.
mainVars == <<disk, args, globalExcludePatterns, targetsToProcess, tidx, previous>>

vars == <<fs, excludePatterns, baseDisplayPath, todo, visited, builder, stderr, pc, call, ret,
          absDirPath, mainVars>>

-----------------------------------------------------------------------------
(* Bytes and strings.                                                      *)

\* The bytes the model uses, in increasing byte value.
ByteOrder ==
    << "NUL", "\t", "\n", " ", "!", "#", "*", ",", "-", ".", "/", "?",
       "D", "M", "[", "\\", "]", "^", "BQ",
       "a", "b", "c", "d", "e", "f", "g", "h", "i", "k", "l", "m", "n", "o",
       "p", "r", "s", "t", "u", "x", "y", "z" >>

Code(c) == CHOOSE i \in 1..Len(ByteOrder) : ByteOrder[i] = c

Contains(s, c) == \E i \in 1..Len(s) : s[i] = c

HasPrefix(s, p) == Len(s) >= Len(p) /\ SubSeq(s, 1, Len(p)) = p

HasSuffix(s, p) == Len(s) >= Len(p) /\ SubSeq(s, Len(s) - Len(p) + 1, Len(s)) = p

TrimSuffix(s, p) == IF HasSuffix(s, p) THEN SubSeq(s, 1, Len(s) - Len(p)) ELSE s

TrimPrefix(s, p) == IF HasPrefix(s, p) THEN SubSeq(s, Len(p) + 1, Len(s)) ELSE s

IsSpace(c) == c \in {" ", "\t", "\n"}

RECURSIVE TrimLeft(_)
TrimLeft(s) == IF s # <<>> /\ IsSpace(Head(s)) THEN TrimLeft(Tail(s)) ELSE s

RECURSIVE TrimRight(_)
TrimRight(s) ==
    IF s # <<>> /\ IsSpace(s[Len(s)]) THEN TrimRight(SubSeq(s, 1, Len(s) - 1)) ELSE s

TrimSpace(s) == TrimRight(TrimLeft(s))

\* The index of the last c in s, 0 when there is none.
RECURSIVE LastIndex(_, _)
LastIndex(s, c) ==
    IF s = <<>> THEN 0
    ELSE IF s[Len(s)] = c THEN Len(s)
    ELSE LastIndex(SubSeq(s, 1, Len(s) - 1), c)

RECURSIVE TrimSlashes(_)
TrimSlashes(s) ==
    IF s # <<>> /\ s[Len(s)] = "/" THEN TrimSlashes(SubSeq(s, 1, Len(s) - 1)) ELSE s

\* filepath.Base: the last element of the path, trailing separators removed.
Base(path) ==
    IF path = <<>> THEN <<".">>
    ELSE LET p == TrimSlashes(path) IN
         IF p = <<>> THEN <<"/">>
         ELSE SubSeq(p, LastIndex(p, "/") + 1, Len(p))

-----------------------------------------------------------------------------
(* filepath.Match (Unix), as called by isExcluded.                         *)

BadPattern == [matched |-> FALSE, err |-> TRUE]

NoMatch == [matched |-> FALSE, err |-> FALSE]

RECURSIVE stripStars(_)
stripStars(p) == IF p # <<>> /\ Head(p) = "*" THEN stripStars(Tail(p)) ELSE p

\* The scan loop of scanChunk: the 0-based index at which the chunk ends.
RECURSIVE scanEnd(_, _, _)
scanEnd(p, i, inrange) ==
    IF i >= Len(p) THEN i
    ELSE LET c == p[i + 1] IN
         CASE c = "\\" -> scanEnd(p, (IF i + 1 < Len(p) THEN i + 1 ELSE i) + 1, inrange)
           [] c = "["  -> scanEnd(p, i + 1, TRUE)
           [] c = "]"  -> scanEnd(p, i + 1, FALSE)
           [] c = "*"  -> IF ~inrange THEN i ELSE scanEnd(p, i + 1, inrange)
           [] OTHER    -> scanEnd(p, i + 1, inrange)

scanChunk(pattern) ==
    LET p == stripStars(pattern)
        i == IF Len(p) < scanEnd(p, 0, FALSE) THEN Len(p) ELSE scanEnd(p, 0, FALSE)
    IN  [star  |-> Len(p) < Len(pattern),
         chunk |-> SubSeq(p, 1, i),
         rest  |-> SubSeq(p, i + 1, Len(p))]

\* getEsc: one character of a character class, possibly escaped.
getEsc(chunk) ==
    IF chunk = <<>> \/ Head(chunk) = "-" \/ Head(chunk) = "]"
    THEN [err |-> TRUE, r |-> "", nchunk |-> <<>>]
    ELSE LET c1 == IF Head(chunk) = "\\" THEN Tail(chunk) ELSE chunk IN
         IF c1 = <<>> THEN [err |-> TRUE, r |-> "", nchunk |-> <<>>]
         ELSE [err |-> Tail(c1) = <<>>, r |-> Head(c1), nchunk |-> Tail(c1)]

\* The range loop of a character class; hasR is false once the match has failed.
RECURSIVE classRanges(_, _, _, _, _)
classRanges(chunk, r, hasR, match, nrange) ==
    IF chunk # <<>> /\ Head(chunk) = "]" /\ nrange > 0
    THEN [err |-> FALSE, chunk |-> Tail(chunk), match |-> match]
    ELSE LET lo == getEsc(chunk) IN
         IF lo.err THEN [err |-> TRUE, chunk |-> <<>>, match |-> FALSE]
         ELSE IF Head(lo.nchunk) = "-"
         THEN LET hi == getEsc(Tail(lo.nchunk)) IN
              IF hi.err THEN [err |-> TRUE, chunk |-> <<>>, match |-> FALSE]
              ELSE classRanges(hi.nchunk, r, hasR,
                       match \/ (hasR /\ Code(lo.r) <= Code(r) /\ Code(r) <= Code(hi.r)),
                       nrange + 1)
         ELSE classRanges(lo.nchunk, r, hasR, match \/ (hasR /\ lo.r = r), nrange + 1)

ChunkBad == [rest |-> <<>>, ok |-> FALSE, err |-> TRUE]

\* matchChunk: after the match fails the loop goes on checking that the chunk
\* is well formed, no longer reading s.
RECURSIVE matchChunkFrom(_, _, _)
matchChunkFrom(chunk, s, failed0) ==
    IF chunk = <<>>
    THEN IF failed0 THEN [rest |-> <<>>, ok |-> FALSE, err |-> FALSE]
         ELSE [rest |-> s, ok |-> TRUE, err |-> FALSE]
    ELSE LET failed == failed0 \/ s = <<>>
             next   == IF failed THEN s ELSE Tail(s)
         IN
         CASE Head(chunk) = "[" ->
                LET c1      == Tail(chunk)
                    negated == c1 # <<>> /\ Head(c1) = "^"
                    c2      == IF negated THEN Tail(c1) ELSE c1
                    cl      == classRanges(c2, IF failed THEN "" ELSE Head(s), ~failed, FALSE, 0)
                IN  IF cl.err THEN ChunkBad
                    ELSE matchChunkFrom(cl.chunk, next, failed \/ (cl.match = negated))
           [] Head(chunk) = "?" ->
                matchChunkFrom(Tail(chunk), next, failed \/ Head(s) = "/")
           [] Head(chunk) = "\\" ->
                IF Tail(chunk) = <<>> THEN ChunkBad
                ELSE matchChunkFrom(Tail(Tail(chunk)), next, failed \/ Head(Tail(chunk)) # Head(s))
           [] OTHER ->
                matchChunkFrom(Tail(chunk), next, failed \/ Head(chunk) # Head(s))

matchChunk(chunk, s) == matchChunkFrom(chunk, s, FALSE)

\* Before returning false with no error, Match checks that the remainder of
\* the pattern is syntactically valid.
RECURSIVE validateRest(_)

\* sc is the first chunk of what remains of the pattern.
validateChunk(sc) ==
    IF matchChunk(sc.chunk, <<>>).err THEN BadPattern ELSE validateRest(sc.rest)

validateRest(pattern) ==
    IF pattern = <<>> THEN NoMatch ELSE validateChunk(scanChunk(pattern))

RECURSIVE Match(_, _)
RECURSIVE starSearch(_, _, _, _)

\* One turn of the star loop: m is what matchChunk found i+1 bytes into name.
starSearchAt(chunk, rest, name, i, m) ==
    IF m.ok
    THEN IF rest = <<>> /\ m.rest # <<>>
         THEN starSearch(chunk, rest, name, i + 1)
         ELSE Match(rest, m.rest)
    ELSE IF m.err THEN BadPattern
    ELSE starSearch(chunk, rest, name, i + 1)

\* The loop "look for a match skipping i+1 bytes; cannot skip /".
starSearch(chunk, rest, name, i) ==
    IF i < Len(name) /\ name[i + 1] # "/"
    THEN starSearchAt(chunk, rest, name, i, matchChunk(chunk, SubSeq(name, i + 2, Len(name))))
    ELSE validateRest(rest)

\* One turn of the loop of Match: sc is what scanChunk found, m what
\* matchChunk found for its chunk at the start of name.
matchScanned(sc, name, m) ==
    IF m.ok /\ (m.rest = <<>> \/ sc.rest # <<>>) THEN Match(sc.rest, m.rest)
    ELSE IF m.err THEN BadPattern
    ELSE IF sc.star THEN starSearch(sc.chunk, sc.rest, name, 0)
    ELSE validateRest(sc.rest)

matchFrom(sc, name) ==
    IF sc.star /\ sc.chunk = <<>>
    THEN [matched |-> ~Contains(name, "/"), err |-> FALSE]
    ELSE matchScanned(sc, name, matchChunk(sc.chunk, name))

Match(pattern, name) ==
    IF pattern = <<>> THEN [matched |-> name = <<>>, err |-> FALSE]
    ELSE matchFrom(scanChunk(pattern), name)

-----------------------------------------------------------------------------
(* isExcluded.                                                             *)

NotExcluded == [excluded |-> FALSE, pattern |-> <<>>]

\* patternExcludes without check 2: a slash-free pattern is matched against the
\* full relative path only.
patternExcludesFullPathOnly(rawPattern, pathToCheck, baseName) ==
    LET pattern == TrimSpace(rawPattern) IN
    IF pattern = <<>> THEN FALSE
    ELSE LET full == Match(pattern, pathToCheck) IN
         IF full.err THEN FALSE
         ELSE \/ full.matched
              \/ /\ HasSuffix(pattern, <<"/">>)
                 /\ LET cleanPattern == TrimSuffix(pattern, <<"/">>) IN
                    \/ Match(cleanPattern, pathToCheck).matched
                    \/ /\ ~Contains(cleanPattern, "/")
                       /\ Match(cleanPattern, baseName).matched

\* patternExcludes with check 2 lacking its guard: the last element of every
\* pattern, slash or not, is matched against the base name.
patternExcludesBaseAlways(rawPattern, pathToCheck, baseName) ==
    LET pattern == TrimSpace(rawPattern) IN
    IF pattern = <<>> THEN FALSE
    ELSE LET full == Match(pattern, pathToCheck) IN
         IF full.err THEN FALSE
         ELSE \/ full.matched
              \/ Match(Base(pattern), baseName).matched
              \/ /\ HasSuffix(pattern, <<"/">>)
                 /\ LET cleanPattern == TrimSuffix(pattern, <<"/">>) IN
                    \/ Match(cleanPattern, pathToCheck).matched
                    \/ /\ ~Contains(cleanPattern, "/")
                       /\ Match(cleanPattern, baseName).matched

\* patternExcludes with check 3 matching the stripped pattern against the full
\* relative path only, never against the base name.
patternExcludesNoDirName(rawPattern, pathToCheck, baseName) ==
    LET pattern == TrimSpace(rawPattern) IN
    IF pattern = <<>> THEN FALSE
    ELSE LET full == Match(pattern, pathToCheck) IN
         IF full.err THEN FALSE
         ELSE \/ full.matched
              \/ /\ ~Contains(pattern, "/")
                 /\ Match(pattern, baseName).matched
              \/ /\ HasSuffix(pattern, <<"/">>)
                 /\ Match(TrimSuffix(pattern, <<"/">>), pathToCheck).matched

\* Checks 1 to 3 for a trimmed pattern, full being the result of
\* filepath.Match(pattern, pathToCheck).
checksHit(pattern, full, pathToCheck, baseName) ==
    IF full.err THEN FALSE
    ELSE \/ full.matched
         \/ /\ ~Contains(pattern, "/")
            /\ Match(pattern, baseName).matched
         \/ /\ HasSuffix(pattern, <<"/">>)
            /\ LET cleanPattern == TrimSuffix(pattern, <<"/">>) IN
               \/ Match(cleanPattern, pathToCheck).matched
               \/ /\ ~Contains(cleanPattern, "/")
                  /\ Match(cleanPattern, baseName).matched

\* patternExcludes with a leading "/" anchoring the pattern at the root of
\* the walk, as in an ignore file: the rest of the pattern is matched against
\* the full relative path.
patternExcludesAnchored(rawPattern, pathToCheck, baseName) ==
    LET pattern == TrimSpace(rawPattern) IN
    IF pattern = <<>> THEN FALSE
    ELSE IF pattern[1] = "/"
    THEN Match(TrimSuffix(Tail(pattern), <<"/">>), pathToCheck).matched
    ELSE checksHit(pattern, Match(pattern, pathToCheck), pathToCheck, baseName)

\* The body of the loop for one pattern: "hit" when the pattern excludes the path.
patternExcludes(rawPattern, pathToCheck, baseName) ==
    LET pattern == TrimSpace(rawPattern) IN
    IF pattern = <<>> THEN FALSE
    ELSE checksHit(pattern, Match(pattern, pathToCheck), pathToCheck, baseName)

\* isExcludedFrom with a return in the place of the continue that follows
\* filepath.Match's error: a malformed pattern ends the loop.
RECURSIVE isExcludedFromStopsAtError(_, _, _)
isExcludedFromStopsAtError(path, patterns, i) ==
    IF i > Len(patterns) THEN NotExcluded
    ELSE IF TrimSpace(patterns[i]) # <<>> /\ Match(TrimSpace(patterns[i]), path).err
    THEN NotExcluded
    ELSE IF patternExcludes(patterns[i], path, Base(path))
    THEN [excluded |-> TRUE, pattern |-> TrimSpace(patterns[i])]
    ELSE isExcludedFromStopsAtError(path, patterns, i + 1)

RECURSIVE isExcludedFrom(_, _, _)
isExcludedFrom(path, patterns, i) ==
    IF i > Len(patterns) THEN NotExcluded
    ELSE IF patternExcludes(patterns[i], path, Base(path))
    THEN [excluded |-> TRUE, pattern |-> TrimSpace(patterns[i])]
    ELSE isExcludedFrom(path, patterns, i + 1)

\* isExcluded with a break in the place of the continue that follows an
\* empty pattern: the patterns after a blank one are not looked at.
isExcludedUntilBlank(path, patterns) ==
    LET blanks == { i \in 1..Len(patterns) : TrimSpace(patterns[i]) = <<>> }
    IN  IF blanks = {} THEN isExcludedFrom(path, patterns, 1)
        ELSE isExcludedFrom(path, SubSeq(patterns, 1,
                 (CHOOSE i \in blanks : \A j \in blanks : i <= j) - 1), 1)

isExcluded(path, patterns) ==
    IF Len(patterns) = 0 THEN NotExcluded ELSE isExcludedFrom(path, patterns, 1)

-----------------------------------------------------------------------------
(* getLanguageHint.                                                        *)

UpperCase == << "A", "B", "C", "D", "E", "F", "G", "H", "I", "J", "K", "L", "M",
                "N", "O", "P", "Q", "R", "S", "T", "U", "V", "W", "X", "Y", "Z" >>

LowerCase == << "a", "b", "c", "d", "e", "f", "g", "h", "i", "j", "k", "l", "m",
                "n", "o", "p", "q", "r", "s", "t", "u", "v", "w", "x", "y", "z" >>

ToLowerByte(c) ==
    IF \E i \in 1..26 : UpperCase[i] = c
    THEN LowerCase[CHOOSE i \in 1..26 : UpperCase[i] = c]
    ELSE c

ToLower(s) == [i \in 1..Len(s) |-> ToLowerByte(s[i])]

\* filepath.Ext: the suffix beginning at the final dot of the final element.
Ext(path) ==
    LET name == SubSeq(path, LastIndex(path, "/") + 1, Len(path))
        dot  == LastIndex(name, ".")
    IN  IF dot = 0 THEN <<>> ELSE SubSeq(name, dot, Len(name))

\* switch baseName
SpecialNames ==
    <<
       << <<"c", "a", "d", "d", "y", "f", "i", "l", "e">>, <<"c", "a", "d", "d", "y", "f", "i", "l", "e">> >>,
       << <<"d", "o", "c", "k", "e", "r", "f", "i", "l", "e">>, <<"d", "o", "c", "k", "e", "r", "f", "i", "l", "e">> >>,
       << <<"c", "o", "n", "t", "a", "i", "n", "e", "r", "f", "i", "l", "e">>, <<"d", "o", "c", "k", "e", "r", "f", "i", "l", "e">> >>,
       << <<"m", "a", "k", "e", "f", "i", "l", "e">>, <<"m", "a", "k", "e", "f", "i", "l", "e">> >>
    >>

\* switch ext
ExtensionHints ==
    <<
       << <<".", "g", "o">>, <<"g", "o">> >>,
       << <<".", "m", "d">>, <<"m", "a", "r", "k", "d", "o", "w", "n">> >>,
       << <<".", "m", "a", "r", "k", "d", "o", "w", "n">>, <<"m", "a", "r", "k", "d", "o", "w", "n">> >>,
       << <<".", "s", "h">>, <<"b", "a", "s", "h">> >>,
       << <<".", "b", "a", "s", "h">>, <<"b", "a", "s", "h">> >>,
       << <<".", "p", "y">>, <<"p", "y", "t", "h", "o", "n">> >>,
       << <<".", "j", "s">>, <<"j", "a", "v", "a", "s", "c", "r", "i", "p", "t">> >>,
       << <<".", "m", "j", "s">>, <<"j", "a", "v", "a", "s", "c", "r", "i", "p", "t">> >>,
       << <<".", "c", "j", "s">>, <<"j", "a", "v", "a", "s", "c", "r", "i", "p", "t">> >>,
       << <<".", "t", "s">>, <<"t", "y", "p", "e", "s", "c", "r", "i", "p", "t">> >>,
       << <<".", "t", "s", "x">>, <<"t", "y", "p", "e", "s", "c", "r", "i", "p", "t">> >>,
       << <<".", "j", "a", "v", "a">>, <<"j", "a", "v", "a">> >>,
       << <<".", "c">>, <<"c">> >>,
       << <<".", "h">>, <<"c">> >>,
       << <<".", "c", "p", "p">>, <<"c", "p", "p">> >>,
       << <<".", "c", "x", "x">>, <<"c", "p", "p">> >>,
       << <<".", "h", "p", "p">>, <<"c", "p", "p">> >>,
       << <<".", "h", "x", "x">>, <<"c", "p", "p">> >>,
       << <<".", "c", "c">>, <<"c", "p", "p">> >>,
       << <<".", "h", "h">>, <<"c", "p", "p">> >>,
       << <<".", "c", "s">>, <<"c", "s", "h", "a", "r", "p">> >>,
       << <<".", "r", "b">>, <<"r", "u", "b", "y">> >>,
       << <<".", "p", "h", "p">>, <<"p", "h", "p">> >>,
       << <<".", "s", "w", "i", "f", "t">>, <<"s", "w", "i", "f", "t">> >>,
       << <<".", "k", "t">>, <<"k", "o", "t", "l", "i", "n">> >>,
       << <<".", "k", "t", "s">>, <<"k", "o", "t", "l", "i", "n">> >>,
       << <<".", "r", "s">>, <<"r", "u", "s", "t">> >>,
       << <<".", "h", "t", "m", "l">>, <<"h", "t", "m", "l">> >>,
       << <<".", "h", "t", "m">>, <<"h", "t", "m", "l">> >>,
       << <<".", "c", "s", "s">>, <<"c", "s", "s">> >>,
       << <<".", "j", "s", "o", "n">>, <<"j", "s", "o", "n">> >>,
       << <<".", "y", "a", "m", "l">>, <<"y", "a", "m", "l">> >>,
       << <<".", "y", "m", "l">>, <<"y", "a", "m", "l">> >>,
       << <<".", "x", "m", "l">>, <<"x", "m", "l">> >>,
       << <<".", "s", "q", "l">>, <<"s", "q", "l">> >>,
       << <<".", "d", "o", "c", "k", "e", "r", "f", "i", "l", "e">>, <<"d", "o", "c", "k", "e", "r", "f", "i", "l", "e">> >>,
       << <<".", "t", "x", "t">>, <<"t", "e", "x", "t">> >>,
       << <<".", "t", "e", "x", "t">>, <<"t", "e", "x", "t">> >>
    >>

Lookup(table, key) ==
    IF \E i \in 1..Len(table) : table[i][1] = key
    THEN table[CHOOSE i \in 1..Len(table) : table[i][1] = key][2]
    ELSE <<>>

InTable(table, key) == \E i \in 1..Len(table) : table[i][1] = key

\* getLanguageHint without the switch on the base name.
getLanguageHintByExtension(filePath) ==
    LET ext == ToLower(Ext(filePath))
    IN  IF InTable(ExtensionHints, ext) THEN Lookup(ExtensionHints, ext)
        ELSE TrimPrefix(ext, <<".">>)

getLanguageHint(filePath) ==
    LET ext      == ToLower(Ext(filePath))
        baseName == ToLower(Base(filePath))
    IN  IF InTable(SpecialNames, baseName) THEN Lookup(SpecialNames, baseName)
        ELSE IF InTable(ExtensionHints, ext) THEN Lookup(ExtensionHints, ext)
        ELSE TrimPrefix(ext, <<".">>)

-----------------------------------------------------------------------------
(* processFile.                                                            *)

\* 1*1024*1024
SizeLimit == 1048576

\* A string as file content: one run of length 1 per byte.
Bytes(s) == [i \in 1..Len(s) |-> [b |-> s[i], n |-> 1]]

\* The number of bytes in the runs lo..hi of content, by halves.
RECURSIVE ByteLenIn(_, _, _)
ByteLenIn(content, lo, hi) ==
    IF lo > hi THEN 0
    ELSE IF lo = hi THEN content[lo].n
    ELSE LET mid == (lo + hi) \div 2 IN
         ByteLenIn(content, lo, mid) + ByteLenIn(content, mid + 1, hi)

ByteLen(content) == ByteLenIn(content, 1, Len(content))

LastByte(content) == content[Len(content)].b

\* The size gate taken at the threshold itself.
TooLargeFromLimit(content) == ByteLen(content) >= SizeLimit

\* len(content) > 1*1024*1024
TooLarge(content) == ByteLen(content) > SizeLimit

\* The scan for NUL bytes.  The k-th run starts at byte offset off.  Within a
\* run of NULs every byte but the last is followed by a NUL, so the run holds
\* a NUL that is not skipped exactly when it reaches offset 10 or when the
\* byte after its last one is missing or not a NUL.
RECURSIVE isBinaryFrom(_, _, _)
isBinaryFrom(content, k, off) ==
    IF k > Len(content) THEN FALSE
    ELSE LET last      == off + content[k].n - 1
             nextIsNul == k < Len(content) /\ content[k + 1].b = "NUL"
         IN  IF content[k].b = "NUL" /\ ~(last < 10 /\ nextIsNul)
             THEN TRUE
             ELSE isBinaryFrom(content, k + 1, off + content[k].n)

\* isBinary with the tolerance letting a pair through: two NULs side by side
\* that begin before offset 10 are both skipped.
isBinaryPairsSkipped(content) ==
    \E k \in 1..Len(content) :
        /\ content[k].b = "NUL"
        /\ ~( /\ ByteLen(SubSeq(content, 1, k - 1)) < 10
              /\ \/ content[k].n >= 2
                 \/ k < Len(content) /\ content[k + 1].b = "NUL"
                 \/ k > 1 /\ content[k - 1].b = "NUL" )

isBinary(content) == isBinaryFrom(content, 1, 0)

Fence == <<"BQ", "BQ", "BQ">>

Separator == Bytes(<<"\n", "\n">>)

\* Header naming the file by its absolute path.
HeaderAbsPath(absFilePath, displayFilePath) ==
    LET lang == getLanguageHint(absFilePath) IN
    IF lang # <<>> THEN lang \o <<" ">> \o absFilePath ELSE absFilePath

\* Header writing the hint and the space whether or not there is a hint.
HeaderAlwaysHint(absFilePath, displayFilePath) ==
    getLanguageHint(absFilePath) \o <<" ">> \o displayFilePath

Header(absFilePath, displayFilePath) ==
    LET lang == getLanguageHint(absFilePath) IN
    IF lang # <<>> THEN lang \o <<" ">> \o displayFilePath ELSE displayFilePath

\* TrailingNewline without the test for an empty content.
TrailingNewlineEmptyToo(content) ==
    IF Len(content) = 0 \/ LastByte(content) # "\n" THEN Bytes(<<"\n">>) ELSE <<>>

\* The newline written after a content that does not end with one.
TrailingNewline(content) ==
    IF Len(content) > 0 /\ LastByte(content) # "\n" THEN Bytes(<<"\n">>) ELSE <<>>

\* The bytes processFile appends for a file that passes the gates.
Block(b, absFilePath, displayFilePath, content) ==
    (IF ByteLen(b) > 0 THEN Separator ELSE <<>>)
        \o Bytes(Fence \o Header(absFilePath, displayFilePath) \o <<"\n">>)
        \o content
        \o TrailingNewline(content)
        \o Bytes(Fence \o <<"\n">>)

Diag(msg, path, pattern) == [msg |-> msg, path |-> path, pattern |-> pattern]

\* A processFile that writes the separator before it looks at the file.
processFileSeparatorFirst(absFilePath, displayFilePath, file, b) ==
    LET separated == b \o (IF ByteLen(b) > 0 THEN Separator ELSE <<>>) IN
    IF ~file.readable
    THEN [builder |-> separated, log |-> Diag("Error reading file", displayFilePath, <<>>)]
    ELSE IF TooLarge(file.content)
    THEN [builder |-> separated, log |-> Diag("Skipping large file", displayFilePath, <<>>)]
    ELSE IF isBinary(file.content)
    THEN [builder |-> separated,
          log     |-> Diag("Skipping likely binary file", displayFilePath, <<>>)]
    ELSE [builder |-> b \o Block(b, absFilePath, displayFilePath, file.content),
          log     |-> Diag("Adding file", displayFilePath, <<>>)]

\* processFile on a file [readable, content]: the builder afterwards and the
\* diagnostic written.
processFile(absFilePath, displayFilePath, file, b) ==
    IF ~file.readable
    THEN [builder |-> b, log |-> Diag("Error reading file", displayFilePath, <<>>)]
    ELSE IF TooLarge(file.content)
    THEN [builder |-> b, log |-> Diag("Skipping large file", displayFilePath, <<>>)]
    ELSE IF isBinary(file.content)
    THEN [builder |-> b, log |-> Diag("Skipping likely binary file", displayFilePath, <<>>)]
    ELSE [builder |-> b \o Block(b, absFilePath, displayFilePath, file.content),
          log     |-> Diag("Adding file", displayFilePath, <<>>)]

-----------------------------------------------------------------------------
(* The directory tree and filepath.WalkDir.                                *)
(*                                                                         *)
(* An entry of the tree is [path, isDir, readable, content]; path is the   *)
(* sequence of names from the walk's root down to the entry.               *)

Name(e) == e.path[Len(e.path)]

RECURSIVE JoinNames(_)
JoinNames(path) ==
    IF Len(path) = 0 THEN <<>>
    ELSE IF Len(path) = 1 THEN path[1]
    ELSE path[1] \o <<"/">> \o JoinNames(Tail(path))

\* filepath.Rel(absDirPath, currentAbsPath)
RelPath(e) == JoinNames(e.path)

AbsRoot == <<"/", "r">>

\* currentAbsPath: filepath.Join of the walk's root and the names below it.
AbsPath(e) == absDirPath \o <<"/">> \o RelPath(e)

\* What is at an absolute path of the disk: a regular file [readable, content]
\* or a directory with the tree below it.  root is what the walk finds at the
\* root after main's os.Stat succeeded: "ok", "unreadable" (os.ReadDir fails)
\* or "gone" (os.Lstat fails).  A path outside the domain of the disk does not
\* exist.
NoFile == [readable |-> FALSE, content |-> <<>>]

DirNode(root, tree) == [kind |-> "dir", root |-> root, tree |-> tree, file |-> NoFile]

FileNode(file) == [kind |-> "file", root |-> "ok", tree |-> {}, file |-> file]

Exists(path) == path \in DOMAIN disk

\* filepath.Clean of a relative path without "..": empty and "." elements go.
RECURSIVE CleanFrom(_, _, _)
CleanFrom(s, cur, out) ==
    LET flush == IF cur = <<>> \/ cur = <<".">> THEN out
                 ELSE IF out = <<>> THEN cur ELSE out \o <<"/">> \o cur
    IN  IF s = <<>> THEN (IF flush = <<>> THEN <<".">> ELSE flush)
        ELSE IF Head(s) = "/" THEN CleanFrom(Tail(s), <<>>, flush)
        ELSE CleanFrom(Tail(s), Append(cur, Head(s)), out)

\* A rooted path stays rooted.
Clean(s) ==
    IF s # <<>> /\ Head(s) = "/"
    THEN LET c == CleanFrom(Tail(s), <<>>, <<>>) IN
         IF c = <<".">> THEN <<"/">> ELSE <<"/">> \o c
    ELSE CleanFrom(s, <<>>, <<>>)

\* filepath.ToSlash(filepath.Join(baseDisplayPath, relativePath))
DisplayPath(base, e) == Clean(base \o <<"/">> \o RelPath(e))

\* Byte-wise order of two names, as os.ReadDir sorts a directory.
RECURSIVE NameLess(_, _)
NameLess(x, y) ==
    IF x = <<>> THEN y # <<>>
    ELSE IF y = <<>> THEN FALSE
    ELSE IF Head(x) = Head(y) THEN NameLess(Tail(x), Tail(y))
    ELSE Code(Head(x)) < Code(Head(y))

Children(tree, dir) ==
    {e \in tree : Len(e.path) = Len(dir) + 1 /\ SubSeq(e.path, 1, Len(dir)) = dir}

RECURSIVE SortByName(_)
SortByName(S) ==
    IF S = {} THEN <<>>
    ELSE LET first == CHOOSE e \in S : \A o \in S \ {e} : NameLess(Name(e), Name(o))
         IN  <<first>> \o SortByName(S \ {first})

\* A walk that visits the entries of a directory after the rest (breadth
\* first) instead of before it.
DescendAfterRest(tree, e, rest) == rest \o SortByName(Children(tree, e.path))

\* A walk that reads the entries of a directory twice.
DescendTwice(tree, e, rest) ==
    SortByName(Children(tree, e.path)) \o SortByName(Children(tree, e.path)) \o rest

\* What WalkDir does after the callback returned nil for a directory: its
\* entries, sorted, are visited before the rest.
Descend(tree, e, rest) == SortByName(Children(tree, e.path)) \o rest

\* Skip with nil returned where SkipDir was meant.
SkipButDescend(tree, e, rest) == Descend(tree, e, rest)

\* What WalkDir does after filepath.SkipDir for a directory, or nil for a file.
Skip(tree, e, rest) == rest

DotGit == <<".", "g", "i", "t">>

\* IsHiddenDir with the exemption of .git from the notice taken for an
\* exemption from the skip.
IsHiddenDirButGit(name) == HasPrefix(name, <<".">>) /\ name # DotGit

\* strings.HasPrefix(d.Name(), ".") && d.Name() != "." && d.Name() != ".."
IsHiddenDir(name) == HasPrefix(name, <<".">>) /\ name # <<".">> /\ name # <<".", ".">>

\* strings.HasPrefix(d.Name(), ".")
IsHiddenFile(name) == HasPrefix(name, <<".">>)

-----------------------------------------------------------------------------
(* readGitIgnore.                                                          *)

\* bufio.MaxScanTokenSize: bufio.Scanner gives up on a line of that many bytes
\* or more, and Scan returns false as at the end of the file.
MaxScanTokenSize == 65536

GitIgnoreName == <<".", "g", "i", "t", "i", "g", "n", "o", "r", "e">>

\* The string of bytes that a sequence of runs stands for.
RECURSIVE Flatten(_)
Flatten(runs) ==
    IF runs = <<>> THEN <<>>
    ELSE [i \in 1..Head(runs).n |-> Head(runs).b] \o Flatten(Tail(runs))

\* for scanner.Scan(): the lines of content, each without its newline, up to
\* the end of the content or the first line that is too long.  line holds the
\* bytes read since the last newline, out the lines returned so far.  A last
\* line without a newline is returned when it is not empty.
RECURSIVE ScanLines(_, _, _)
ScanLines(content, line, out) ==
    IF content = <<>>
    THEN IF line = <<>> \/ ByteLen(line) >= MaxScanTokenSize THEN out
         ELSE Append(out, line)
    ELSE LET r == Head(content) IN
         IF r.b = "\n"
         THEN IF ByteLen(line) >= MaxScanTokenSize THEN out
              ELSE ScanLines((IF r.n > 1 THEN << [b |-> "\n", n |-> r.n - 1] >> ELSE <<>>)
                                 \o Tail(content),
                             <<>>, Append(out, line))
         ELSE ScanLines(Tail(content), Append(line, r), out)

\* The body of the loop: the trimmed line is kept unless it is empty, a
\* comment or a negation.
RECURSIVE KeepPatterns(_)
KeepPatterns(lines) ==
    IF lines = <<>> THEN <<>>
    ELSE LET line == TrimSpace(Flatten(Head(lines))) IN
         IF line = <<>> \/ HasPrefix(line, <<"#">>) \/ HasPrefix(line, <<"!">>)
         THEN KeepPatterns(Tail(lines))
         ELSE <<line>> \o KeepPatterns(Tail(lines))

\* os.Open(filepath.Join(dirPath, ".gitignore")) succeeds.
OpensGitIgnore(dirPath) ==
    /\ Exists(dirPath)
    /\ disk[dirPath].kind = "dir"
    /\ disk[dirPath].root # "gone"
    /\ \E e \in disk[dirPath].tree : e.path = <<GitIgnoreName>> /\ e.readable

GitIgnoreFile(dirPath) == CHOOSE e \in disk[dirPath].tree : e.path = <<GitIgnoreName>>

\* A directory named .gitignore is opened, and reading it fails at once.
readGitIgnore(dirPath) ==
    IF ~OpensGitIgnore(dirPath) THEN <<>>
    ELSE IF GitIgnoreFile(dirPath).isDir THEN <<>>
    ELSE KeepPatterns(ScanLines(GitIgnoreFile(dirPath).content, <<>>, <<>>))

-----------------------------------------------------------------------------
(* processDirectory: one action per outcome of the walk callback.  The      *)
(* callback tests the policy first, then the kind and the name of the      *)
(* entry; the guards below are the conjunction of those tests.             *)

Entry == Head(todo)

EntryExcluded == isExcluded(RelPath(Entry), excludePatterns)

Visiting == pc = "walk" /\ todo # <<>>

\* processDirectory up to the callback on the root entry, which returns nil:
\* the root's entries are read.
StartWalk ==
    /\ pc = "start"
    /\ disk[absDirPath].root = "ok"
    /\ pc' = "walk"
    /\ stderr' = Append(stderr, Diag("Processing directory", baseDisplayPath, <<>>))
    /\ todo' = SortByName(Children(fs, <<>>))
    /\ UNCHANGED <<fs, excludePatterns, baseDisplayPath, visited, builder, call, ret>>
    /\ UNCHANGED <<absDirPath, mainVars>>

\* A callback that skips an excluded entry without reporting it.
SkipExcludedSilently ==
    /\ Visiting
    /\ EntryExcluded.excluded
    /\ visited' = Append(visited, RelPath(Entry))
    /\ todo' = Skip(fs, Entry, Tail(todo))
    /\ UNCHANGED <<fs, excludePatterns, baseDisplayPath, builder, stderr, pc, call, ret>>
    /\ UNCHANGED <<absDirPath, mainVars>>

\* The entry matches an exclude pattern: SkipDir for a directory, nil for a file.
SkipExcluded ==
    /\ Visiting
    /\ EntryExcluded.excluded
    /\ visited' = Append(visited, RelPath(Entry))
    /\ stderr' = IF Name(Entry) # DotGit
                 THEN Append(stderr, Diag("Skipping excluded path", RelPath(Entry),
                                          EntryExcluded.pattern))
                 ELSE stderr
    /\ todo' = Skip(fs, Entry, Tail(todo))
    /\ UNCHANGED <<fs, excludePatterns, baseDisplayPath, builder, pc, call, ret>>
    /\ UNCHANGED <<absDirPath, mainVars>>

SkipHiddenDir ==
    /\ Visiting
    /\ Entry.isDir
    /\ IsHiddenDir(Name(Entry))
    /\ ~EntryExcluded.excluded
    /\ visited' = Append(visited, RelPath(Entry))
    /\ stderr' = IF Name(Entry) # DotGit
                 THEN Append(stderr, Diag("Skipping hidden directory", RelPath(Entry), <<>>))
                 ELSE stderr
    /\ todo' = Skip(fs, Entry, Tail(todo))
    /\ UNCHANGED <<fs, excludePatterns, baseDisplayPath, builder, pc, call, ret>>
    /\ UNCHANGED <<absDirPath, mainVars>>

EnterDir ==
    /\ Visiting
    /\ Entry.isDir
    /\ Entry.readable
    /\ ~IsHiddenDir(Name(Entry))
    /\ ~EntryExcluded.excluded
    /\ visited' = Append(visited, RelPath(Entry))
    /\ todo' = Descend(fs, Entry, Tail(todo))
    /\ UNCHANGED <<fs, excludePatterns, baseDisplayPath, builder, stderr, pc, call, ret>>
    /\ UNCHANGED <<absDirPath, mainVars>>

\* A callback that returns the error of a directory that cannot be read: the
\* walk ends there.
EnterUnreadableDirAborts ==
    /\ Visiting
    /\ Entry.isDir
    /\ ~Entry.readable
    /\ ~IsHiddenDir(Name(Entry))
    /\ ~EntryExcluded.excluded
    /\ visited' = Append(visited, RelPath(Entry))
    /\ stderr' = Append(stderr, Diag("Error accessing", AbsPath(Entry), <<>>))
    /\ todo' = <<>>
    /\ UNCHANGED <<fs, excludePatterns, baseDisplayPath, builder, pc, call, ret>>
    /\ UNCHANGED <<absDirPath, mainVars>>

\* A directory that cannot be read: the callback returns nil for the entry,
\* os.ReadDir fails, the callback is called again with the error, reports it
\* and returns nil (d is not nil); the walk goes on with what follows.
EnterUnreadableDir ==
    /\ Visiting
    /\ Entry.isDir
    /\ ~Entry.readable
    /\ ~IsHiddenDir(Name(Entry))
    /\ ~EntryExcluded.excluded
    /\ visited' = Append(visited, RelPath(Entry))
    /\ stderr' = Append(stderr, Diag("Error accessing", AbsPath(Entry), <<>>))
    /\ todo' = Tail(todo)
    /\ UNCHANGED <<fs, excludePatterns, baseDisplayPath, builder, pc, call, ret>>
    /\ UNCHANGED <<absDirPath, mainVars>>

SkipHiddenFile ==
    /\ Visiting
    /\ ~Entry.isDir
    /\ IsHiddenFile(Name(Entry))
    /\ ~EntryExcluded.excluded
    /\ visited' = Append(visited, RelPath(Entry))
    /\ stderr' = Append(stderr, Diag("Skipping hidden file", RelPath(Entry), <<>>))
    /\ todo' = Skip(fs, Entry, Tail(todo))
    /\ UNCHANGED <<fs, excludePatterns, baseDisplayPath, builder, pc, call, ret>>
    /\ UNCHANGED <<absDirPath, mainVars>>

VisitFile ==
    /\ Visiting
    /\ ~Entry.isDir
    /\ ~IsHiddenFile(Name(Entry))
    /\ ~EntryExcluded.excluded
    /\ LET r == processFile(AbsPath(Entry), DisplayPath(baseDisplayPath, Entry), Entry, builder)
       IN  /\ builder' = r.builder
           /\ stderr' = Append(stderr, r.log)
    /\ visited' = Append(visited, RelPath(Entry))
    /\ todo' = Skip(fs, Entry, Tail(todo))
    /\ UNCHANGED <<fs, excludePatterns, baseDisplayPath, pc, call, ret>>
    /\ UNCHANGED <<absDirPath, mainVars>>

\* os.Lstat of the root fails: the callback is called without an entry,
\* reports the error and returns it, which ends the walk.
WalkRootGone ==
    /\ pc = "start"
    /\ disk[absDirPath].root = "gone"
    /\ stderr' = stderr \o << Diag("Processing directory", baseDisplayPath, <<>>),
                              Diag("Error accessing", absDirPath, <<>>) >>
    /\ pc' = "done"
    /\ UNCHANGED <<fs, excludePatterns, baseDisplayPath, todo, visited, builder, call, ret>>
    /\ UNCHANGED <<absDirPath, mainVars>>

\* os.ReadDir of the root fails: the callback returned nil for the root, is
\* called again with the error, reports it and returns nil; no entry follows.
WalkRootUnreadable ==
    /\ pc = "start"
    /\ disk[absDirPath].root = "unreadable"
    /\ stderr' = stderr \o << Diag("Processing directory", baseDisplayPath, <<>>),
                              Diag("Error accessing", absDirPath, <<>>) >>
    /\ todo' = <<>>
    /\ pc' = "walk"
    /\ UNCHANGED <<fs, excludePatterns, baseDisplayPath, visited, builder, call, ret>>
    /\ UNCHANGED <<absDirPath, mainVars>>

WalkDone ==
    /\ pc = "walk"
    /\ todo = <<>>
    /\ pc' = "done"
    /\ UNCHANGED <<fs, excludePatterns, baseDisplayPath, todo, visited, builder, stderr, call, ret>>
    /\ UNCHANGED <<absDirPath, mainVars>>

-----------------------------------------------------------------------------
(* The trees, policies and display roots the walk is checked on.           *)

MaxEntries == 3

MaxPatterns == 1

EntryNames == { <<"a">>, <<"b">>, DotGit, <<"[">> }

TextFile == [isDir |-> FALSE, readable |-> TRUE, content |-> Bytes(<<"a", "\n">>)]

Directory == [isDir |-> TRUE, readable |-> TRUE, content |-> <<>>]

EntryKinds == {TextFile, Directory}

MakeEntry(path, kind) ==
    [path |-> path, isDir |-> kind.isDir, readable |-> kind.readable, content |-> kind.content]

\* The trees made by adding one entry to tree, at the root or in a directory of it.
Extend(tree) ==
    { tree \cup {MakeEntry(Append(dir, n), k)} :
        <<dir, n, k>> \in
            { x \in ({<<>>} \cup {d.path : d \in {e \in tree : e.isDir}})
                        \X EntryNames \X EntryKinds :
                \A e \in tree : e.path # Append(x[1], x[2]) } }

RECURSIVE TreesUpTo(_)
TreesUpTo(k) ==
    IF k = 0 THEN {{}}
    ELSE LET smaller == TreesUpTo(k - 1) IN smaller \cup UNION {Extend(t) : t \in smaller}

PatternPool ==
    { <<"b">>, <<"b", "/">>, <<"a", "/", "b">>, <<"[", "/">> }

RECURSIVE SeqsUpTo(_, _)
SeqsUpTo(S, k) ==
    IF k = 0 THEN {<<>>}
    ELSE LET shorter == SeqsUpTo(S, k - 1) IN
         shorter \cup {Append(s, x) : s \in shorter, x \in S}

DisplayRoots == { <<"d">> }

\* No command line: the function under study is called on its own.
NoMain ==
    /\ args = <<>>
    /\ globalExcludePatterns = <<>>
    /\ targetsToProcess = <<>>
    /\ tidx = 0
    /\ previous = <<>>

Init ==
    /\ fs \in TreesUpTo(MaxEntries)
    /\ absDirPath = AbsRoot
    /\ disk = [p \in {AbsRoot} |-> DirNode("ok", fs)]
    /\ NoMain
    /\ excludePatterns \in SeqsUpTo(PatternPool, MaxPatterns)
    /\ baseDisplayPath \in DisplayRoots
    /\ todo = <<>>
    /\ visited = <<>>
    /\ builder = <<>>
    /\ stderr = <<>>
    /\ pc = "start"
    /\ call = <<>>
    /\ ret = <<>>

Next ==
    \/ StartWalk
    \/ SkipExcluded
    \/ SkipHiddenDir
    \/ EnterDir
    \/ SkipHiddenFile
    \/ VisitFile
    \/ WalkDone

Spec == Init /\ [][Next]_vars

-----------------------------------------------------------------------------
(* processFile on its own: one call on a file and a buffer.                *)

MaxEdge == 2

EdgeBytes == {"NUL", "a", "\n"}

\* n bytes "x"
Fill(n) == IF n = 0 THEN <<>> ELSE << [b |-> "x", n |-> n] >>

FillSizes == {0, 9, SizeLimit - 1, SizeLimit}

\* Contents: up to MaxEdge bytes, a run of "x", up to MaxEdge bytes.
Contents ==
    { Bytes(head) \o Fill(n) \o Bytes(tail) :
        head \in SeqsUpTo(EdgeBytes, MaxEdge),
        n \in FillSizes,
        tail \in SeqsUpTo(EdgeBytes, MaxEdge) }

Files ==
    { [readable |-> TRUE, content |-> c] : c \in Contents }
        \cup { [readable |-> FALSE, content |-> <<>>] }

FileNames ==
    { <<"n", ".", "g", "o">>, <<"M", "a", "k", "e", "f", "i", "l", "e">>,
      <<"n", ".", "x">>, <<"n">> }

\* The buffer before the call: empty, or holding an earlier block.
PriorBuffers ==
    { <<>>, Block(<<>>, <<"p">>, <<"p">>, Bytes(<<"a", "\n">>)) }

InitFile ==
    /\ call \in { [abs     |-> AbsRoot \o <<"/">> \o name,
                   display |-> <<"d", "/">> \o name,
                   file    |-> f,
                   before  |-> b] :
                     name \in FileNames, f \in Files, b \in PriorBuffers }
    /\ builder = call.before
    /\ pc = "file"
    /\ fs = {}
    /\ absDirPath = <<>>
    /\ disk = <<>>
    /\ NoMain
    /\ excludePatterns = <<>>
    /\ baseDisplayPath = <<>>
    /\ todo = <<>>
    /\ visited = <<>>
    /\ stderr = <<>>
    /\ ret = <<>>

CallProcessFile ==
    /\ pc = "file"
    /\ LET r == processFile(call.abs, call.display, call.file, builder)
       IN  /\ builder' = r.builder
           /\ stderr' = Append(stderr, r.log)
           /\ ret' = r.log.msg
    /\ pc' = "returned"
    /\ UNCHANGED <<fs, excludePatterns, baseDisplayPath, todo, visited, call>>
    /\ UNCHANGED <<absDirPath, mainVars>>

NextFile == CallProcessFile

SpecFile == InitFile /\ [][NextFile]_vars

-----------------------------------------------------------------------------
(* isExcluded on its own: one call on a path and a pattern list.           *)

MaxPatternLen == 3

MaxSegments == 2

\* The patterns of a policy are trimmed and not empty (main trims the -x
\* patterns, readGitIgnore the lines), so no pattern starts or ends with a space.
PatternBytes == {"a", "b", "*", "?", "/", "[", "]"}

SegmentNames == { <<"a">>, <<"a", "b">> }

MatchPaths == { JoinNames(p) : p \in SeqsUpTo(SegmentNames, MaxSegments) \ {<<>>} }

\* A pattern under study, alone or after a malformed pattern.
MatchPolicies ==
    { pre \o <<p>> :
        pre \in { <<>>, << <<"[">> >> },
        p \in SeqsUpTo(PatternBytes, MaxPatternLen) \ {<<>>} }

InitMatch ==
    /\ call \in { [path |-> path, patterns |-> pats] :
                    path \in MatchPaths, pats \in MatchPolicies }
    /\ pc = "match"
    /\ ret = <<>>
    /\ fs = {}
    /\ absDirPath = <<>>
    /\ disk = <<>>
    /\ NoMain
    /\ excludePatterns = call.patterns
    /\ baseDisplayPath = <<>>
    /\ todo = <<>>
    /\ visited = <<>>
    /\ builder = <<>>
    /\ stderr = <<>>

CallIsExcluded ==
    /\ pc = "match"
    /\ ret' = isExcluded(call.path, excludePatterns)
    /\ pc' = "returned"
    /\ UNCHANGED <<fs, excludePatterns, baseDisplayPath, todo, visited, builder, stderr, call>>
    /\ UNCHANGED <<absDirPath, mainVars>>

NextMatch == CallIsExcluded

SpecMatch == InitMatch /\ [][NextMatch]_vars

-----------------------------------------------------------------------------
(* isExcluded on a whole policy: one call on a path and a pattern list.    *)

MaxPolicy == 3

\* A pattern that matches by base name, a directory pattern, a path pattern,
\* a malformed pattern, and the empty and a whitespace-only pattern.
PolicyPatterns ==
    { <<"a">>, <<"b", "/">>, <<"a", "/", "*">>, <<"[">>, <<>>, <<" ", "\t">> }

InitPolicy ==
    /\ call \in { [path |-> path, patterns |-> pats] :
                    path \in MatchPaths, pats \in SeqsUpTo(PolicyPatterns, MaxPolicy) }
    /\ pc = "match"
    /\ ret = <<>>
    /\ fs = {}
    /\ absDirPath = <<>>
    /\ disk = <<>>
    /\ NoMain
    /\ excludePatterns = call.patterns
    /\ baseDisplayPath = <<>>
    /\ todo = <<>>
    /\ visited = <<>>
    /\ builder = <<>>
    /\ stderr = <<>>

SpecPolicy == InitPolicy /\ [][NextMatch]_vars

-----------------------------------------------------------------------------
(* main: the command line, the targets, the loop over the targets, the     *)
(* prompt and the follow-up file.                                          *)

\* strings.Split(s, sep) for a separator of one byte.
RECURSIVE SplitFrom(_, _, _, _)
SplitFrom(s, sep, cur, out) ==
    IF s = <<>> THEN Append(out, cur)
    ELSE IF Head(s) = sep THEN SplitFrom(Tail(s), sep, <<>>, Append(out, cur))
    ELSE SplitFrom(Tail(s), sep, Append(cur, Head(s)), out)

Split(s, sep) == SplitFrom(s, sep, <<>>, <<>>)

\* The loop over the comma-separated patterns: trimmed, the empty ones dropped.
RECURSIVE TrimmedNonEmpty(_)
TrimmedNonEmpty(patterns) ==
    IF patterns = <<>> THEN <<>>
    ELSE LET trimmed == TrimSpace(Head(patterns)) IN
         (IF trimmed # <<>> THEN <<trimmed>> ELSE <<>>) \o TrimmedNonEmpty(Tail(patterns))

\* Parse command line exclude patterns
ParseExcludes(x) == IF x = <<>> THEN <<>> ELSE TrimmedNonEmpty(Split(x, ","))

getRepoName(url) ==
    LET parts == Split(TrimSlashes(url), "/")
        name  == TrimSuffix(parts[Len(parts)], <<".", "g", "i", "t">>)
    IN  IF name = <<>> THEN <<"r", "e", "p", "o">> ELSE name

\* os.TempDir()
TempDir == <<"/", "t", "m", "p">>

\* The working directory of the process.
Cwd == <<"/", "w">>

IsAbs(path) == path # <<>> /\ Head(path) = "/"

\* filepath.Abs
Abs(path) == IF IsAbs(path) THEN Clean(path) ELSE Clean(Cwd \o <<"/">> \o path)

\* displayBase of a positional argument
DisplayBase(argPath) == IF IsAbs(argPath) THEN Clean(argPath) ELSE argPath

MakeTarget(absPath, displayBase, isDir) ==
    [absPath |-> absPath, displayBase |-> displayBase, isDir |-> isDir]

\* A loop over the positional arguments that ends at the first path os.Stat
\* does not find.
RECURSIVE PositionalTargetsUntilError(_)
PositionalTargetsUntilError(argPaths) ==
    IF argPaths = <<>> \/ ~Exists(Abs(Head(argPaths))) THEN <<>>
    ELSE LET argPath == Head(argPaths) IN
         << MakeTarget(Abs(argPath), DisplayBase(argPath), disk[Abs(argPath)].kind = "dir") >>
             \o PositionalTargetsUntilError(Tail(argPaths))

\* The loop over the positional arguments: a path that os.Stat does not find
\* is reported and gives no target.
RECURSIVE PositionalTargets(_)
PositionalTargets(argPaths) ==
    IF argPaths = <<>> THEN <<>>
    ELSE LET argPath == Head(argPaths) IN
         (IF Exists(Abs(argPath))
          THEN << MakeTarget(Abs(argPath), DisplayBase(argPath), disk[Abs(argPath)].kind = "dir") >>
          ELSE <<>>)
             \o PositionalTargets(Tail(argPaths))

RECURSIVE StatErrors(_)
StatErrors(argPaths) ==
    IF argPaths = <<>> THEN <<>>
    ELSE (IF Exists(Abs(Head(argPaths))) THEN <<>>
          ELSE << Diag("Error stating path", Head(argPaths), <<>>) >>)
             \o StatErrors(Tail(argPaths))

\* A list of excludes that is appended to from target to target instead of
\* being copied from the globals for each one.
targetExcludesShared(global, t) ==
    (IF tidx = 0 THEN global ELSE excludePatterns)
        \o (IF t.isDir THEN readGitIgnore(t.absPath) ELSE <<>>)

\* Create a specific list of excludes for this target, starting with the
\* globals; for a directory the patterns of its .gitignore are appended.
targetExcludes(global, t) ==
    global \o (IF t.isDir THEN readGitIgnore(t.absPath) ELSE <<>>)

\* A pre-check that tests every root, transient ones too.
RootExcludedEverywhere(t, excludes) == isExcluded(Clean(t.displayBase), excludes)

\* A pre-check that applies the hidden-entry rule to the root as well.
RootExcludedOrHidden(t, excludes) ==
    IF HasPrefix(t.absPath, TempDir) THEN NotExcluded
    ELSE IF IsHiddenDir(Base(t.absPath)) THEN [excluded |-> TRUE, pattern |-> <<".">>]
    ELSE isExcluded(Clean(t.displayBase), excludes)

\* A pre-check against the patterns of -x alone.
RootExcludedByFlag(t, excludes) ==
    IF HasPrefix(t.absPath, TempDir) THEN NotExcluded
    ELSE isExcluded(Clean(t.displayBase), globalExcludePatterns)

\* Pre-check exclude for the root path itself
RootExcluded(t, excludes) ==
    IF HasPrefix(t.absPath, TempDir) THEN NotExcluded
    ELSE isExcluded(Clean(t.displayBase), excludes)

DetectedGitIgnore(t) ==
    IF t.isDir /\ Len(readGitIgnore(t.absPath)) > 0
    THEN << Diag("Detected .gitignore", t.displayBase, <<>>) >>
    ELSE <<>>

\* The target the loop is at, and the one it took up last.
NextTarget == targetsToProcess[tidx + 1]

InLoop == pc \in {"targets", "done"} /\ tidx < Len(targetsToProcess)

LoopOver == pc \in {"targets", "done"} /\ tidx = Len(targetsToProcess)

\* flag.Parse, the patterns of -x, and the check that there is something to do.
ParseFlags ==
    /\ pc = "main"
    /\ globalExcludePatterns' = IF args.out = "both" THEN <<>> ELSE ParseExcludes(args.x)
    /\ pc' = IF args.out = "both" THEN "usage"
             ELSE IF args.paths = <<>> /\ args.g = <<>> /\ args.p = <<>> /\ args.f = <<>>
             THEN "usage"
             ELSE "collect"
    /\ UNCHANGED <<fs, excludePatterns, baseDisplayPath, todo, visited, builder, stderr,
                   call, ret, absDirPath, disk, args, targetsToProcess, tidx, previous>>

\* The directories os.MkdirTemp may make.
TempNames == { TempDir \o <<"/", "f", "-">> \o <<r>> : r \in {"x", "y"} }

\* What git clone --depth 1 leaves in the temporary directory.
RemoteTree ==
    { MakeEntry(<<DotGit>>, Directory),
      MakeEntry(<<DotGit, <<"a">> >>, TextFile),
      MakeEntry(<<<<"a">> >>, TextFile),
      MakeEntry(<<<<"b">> >>, TextFile) }

\* The targets: the clone of -g first, in a fresh temporary directory, then
\* the positional arguments that os.Stat finds.
CollectTargets ==
    /\ pc = "collect"
    /\ IF args.g = <<>>
       THEN /\ targetsToProcess' = PositionalTargets(args.paths)
            /\ stderr' = stderr \o StatErrors(args.paths)
            /\ disk' = disk
       ELSE \E tempDir \in TempNames :
            /\ targetsToProcess' =
                   << MakeTarget(tempDir, getRepoName(args.g), TRUE) >>
                       \o PositionalTargets(args.paths)
            /\ stderr' = stderr \o << Diag("Cloning", args.g, <<>>) >> \o StatErrors(args.paths)
            /\ disk' = [p \in DOMAIN disk \cup {tempDir} |->
                           IF p = tempDir THEN DirNode("ok", RemoteTree) ELSE disk[p]]
    /\ pc' = "targets"
    /\ UNCHANGED <<fs, excludePatterns, baseDisplayPath, todo, visited, builder,
                   call, ret, absDirPath, args, globalExcludePatterns, tidx, previous>>

\* -g without git in PATH: log.Fatal before anything is created.
GitMissing ==
    /\ pc = "collect"
    /\ args.g # <<>>
    /\ stderr' = Append(stderr, Diag("'git' command not found", <<>>, <<>>))
    /\ pc' = "fatal"
    /\ UNCHANGED <<fs, excludePatterns, baseDisplayPath, todo, visited, builder,
                   call, ret, absDirPath, mainVars>>

\* os.MkdirTemp fails: log.Fatalf, and no directory was made.
MkdirTempFails ==
    /\ pc = "collect"
    /\ args.g # <<>>
    /\ stderr' = Append(stderr, Diag("Error creating temporary directory", <<>>, <<>>))
    /\ pc' = "fatal"
    /\ UNCHANGED <<fs, excludePatterns, baseDisplayPath, todo, visited, builder,
                   call, ret, absDirPath, mainVars>>

\* git clone fails in the temporary directory that was made: log.Fatalf
\* calls os.Exit, and the deferred os.RemoveAll does not run.
CloneFails ==
    /\ pc = "collect"
    /\ args.g # <<>>
    /\ \E tempDir \in TempNames :
           /\ disk' = [p \in DOMAIN disk \cup {tempDir} |->
                          IF p = tempDir THEN DirNode("ok", {}) ELSE disk[p]]
           /\ stderr' = stderr \o << Diag("Cloning", args.g, <<>>),
                                     Diag("Error cloning repository", <<>>, <<>>) >>
    /\ pc' = "fatal"
    /\ UNCHANGED <<fs, excludePatterns, baseDisplayPath, todo, visited, builder,
                   call, ret, absDirPath, args, globalExcludePatterns, targetsToProcess,
                   tidx, previous>>

\* The root of the target matches an exclude pattern: the loop continues.
SkipTarget ==
    /\ InLoop
    /\ LET t        == NextTarget
           excludes == targetExcludes(globalExcludePatterns, t)
       IN  /\ RootExcluded(t, excludes).excluded
           /\ excludePatterns' = excludes
           /\ stderr' = stderr \o DetectedGitIgnore(t)
                            \o << Diag("Skipping path", t.displayBase,
                                       RootExcluded(t, excludes).pattern) >>
    /\ tidx' = tidx + 1
    /\ pc' = "targets"
    /\ UNCHANGED <<fs, baseDisplayPath, todo, visited, builder, call, ret, absDirPath,
                   disk, args, globalExcludePatterns, targetsToProcess, previous>>

\* processDirectory is called on the target.
WalkTarget ==
    /\ InLoop
    /\ LET t        == NextTarget
           excludes == targetExcludes(globalExcludePatterns, t)
       IN  /\ t.isDir
           /\ ~RootExcluded(t, excludes).excluded
           /\ excludePatterns' = excludes
           /\ stderr' = stderr \o DetectedGitIgnore(t)
           /\ absDirPath' = t.absPath
           /\ baseDisplayPath' = t.displayBase
           /\ fs' = disk[t.absPath].tree
    /\ todo' = <<>>
    /\ visited' = <<>>
    /\ tidx' = tidx + 1
    /\ pc' = "start"
    /\ UNCHANGED <<builder, call, ret, disk, args, globalExcludePatterns,
                   targetsToProcess, previous>>

\* processFile is called on the target.
FileTarget ==
    /\ InLoop
    /\ LET t        == NextTarget
           excludes == targetExcludes(globalExcludePatterns, t)
           r        == processFile(t.absPath, t.displayBase, disk[t.absPath].file, builder)
       IN  /\ ~t.isDir
           /\ ~RootExcluded(t, excludes).excluded
           /\ excludePatterns' = excludes
           /\ builder' = r.builder
           /\ stderr' = Append(stderr, r.log)
    /\ tidx' = tidx + 1
    /\ pc' = "targets"
    /\ UNCHANGED <<fs, baseDisplayPath, todo, visited, call, ret, absDirPath,
                   disk, args, globalExcludePatterns, targetsToProcess, previous>>

\* Append the prompt from -p if provided
AppendPrompt ==
    /\ LoopOver
    /\ IF args.p # <<>>
       THEN /\ builder' = builder \o (IF ByteLen(builder) > 0 THEN Separator ELSE <<>>)
                              \o Bytes(args.p)
            /\ stderr' = Append(stderr, Diag("Appended prompt text", <<>>, <<>>))
       ELSE UNCHANGED <<builder, stderr>>
    /\ pc' = "followup"
    /\ UNCHANGED <<fs, excludePatterns, baseDisplayPath, todo, visited, call, ret,
                   absDirPath, mainVars>>

\* Append content from the -f file if provided
\* AppendFollowUp without main's own separator: processFile alone separates
\* the block from what is before it.
AppendFollowUpUnseparated ==
    /\ pc = "followup"
    /\ IF args.f = <<>>
       THEN UNCHANGED <<builder, stderr>>
       ELSE IF ~Exists(Abs(args.f))
       THEN /\ stderr' = Append(stderr, Diag("Error stating follow-up file", args.f, <<>>))
            /\ builder' = builder
       ELSE IF disk[Abs(args.f)].kind = "dir"
       THEN /\ stderr' = Append(stderr, Diag("Path for -f is a directory", args.f, <<>>))
            /\ builder' = builder
       ELSE LET r == processFile(Abs(args.f), DisplayBase(args.f), disk[Abs(args.f)].file,
                                 builder)
            IN  /\ builder' = r.builder
                /\ stderr' = Append(stderr, r.log)
    /\ pc' = "output"
    /\ UNCHANGED <<fs, excludePatterns, baseDisplayPath, todo, visited, call, ret,
                   absDirPath, mainVars>>

AppendFollowUp ==
    /\ pc = "followup"
    /\ IF args.f = <<>>
       THEN UNCHANGED <<builder, stderr>>
       ELSE IF ~Exists(Abs(args.f))
       THEN /\ stderr' = Append(stderr, Diag("Error stating follow-up file", args.f, <<>>))
            /\ builder' = builder
       ELSE IF disk[Abs(args.f)].kind = "dir"
       THEN /\ stderr' = Append(stderr, Diag("Path for -f is a directory", args.f, <<>>))
            /\ builder' = builder
       ELSE LET separated == builder \o (IF ByteLen(builder) > 0 THEN Separator ELSE <<>>)
                r == processFile(Abs(args.f), DisplayBase(args.f), disk[Abs(args.f)].file,
                                 separated)
            IN  /\ builder' = r.builder
                /\ stderr' = Append(stderr, r.log)
    /\ pc' = "output"
    /\ UNCHANGED <<fs, excludePatterns, baseDisplayPath, todo, visited, call, ret,
                   absDirPath, mainVars>>

\* strings.TrimSpace(finalOutput) == ""
Blank(b) == \A i \in 1..Len(b) : IsSpace(b[i].b)

\* The output cannot be delivered: os.WriteFile fails for -o, or no clipboard
\* tool takes the content and clipboard.Init fails.  log.Fatalf calls
\* os.Exit, and the deferred os.RemoveAll does not run.
DeliveryFails ==
    /\ pc = "output"
    /\ \/ /\ args.out = "file"
          /\ stderr' = Append(stderr, Diag("Failed to write to output file", <<>>, <<>>))
       \/ /\ args.out \in {"clipboard", "term"}
          /\ ~Blank(builder)
          /\ stderr' = Append(stderr, Diag("Failed to initialize clipboard library",
                                           <<>>, <<>>))
    /\ pc' = "fatal"
    /\ UNCHANGED <<fs, excludePatterns, baseDisplayPath, todo, visited, builder,
                   call, ret, absDirPath, mainVars>>

\* The output is delivered and main returns: the deferred os.RemoveAll
\* removes the temporary directory.
Return ==
    /\ pc = "output"
    /\ IF args.g # <<>>
       THEN /\ disk' = [p \in DOMAIN disk \ {targetsToProcess[1].absPath} |-> disk[p]]
            /\ stderr' = Append(stderr, Diag("Cleaning up temp directory",
                                             targetsToProcess[1].absPath, <<>>))
       ELSE UNCHANGED <<disk, stderr>>
    /\ pc' = "exited"
    /\ UNCHANGED <<fs, excludePatterns, baseDisplayPath, todo, visited, builder, call, ret,
                   absDirPath, args, globalExcludePatterns, targetsToProcess, tidx, previous>>

\* The program is run a second time with the same command line.
Rerun ==
    /\ pc = "exited"
    /\ previous = <<>>
    /\ previous' = <<builder>>
    /\ pc' = "main"
    /\ builder' = <<>>
    /\ stderr' = <<>>
    /\ globalExcludePatterns' = <<>>
    /\ targetsToProcess' = <<>>
    /\ tidx' = 0
    /\ fs' = {}
    /\ excludePatterns' = <<>>
    /\ baseDisplayPath' = <<>>
    /\ absDirPath' = <<>>
    /\ todo' = <<>>
    /\ visited' = <<>>
    /\ UNCHANGED <<call, ret, disk, args>>

-----------------------------------------------------------------------------
(* The disk and the command lines main is checked on.                      *)

MaxTargets == 2

BinaryFile == [isDir |-> FALSE, readable |-> TRUE, content |-> Bytes(<<"a", "NUL">>)]

UnreadableFile == [isDir |-> FALSE, readable |-> FALSE, content |-> <<>>]

LargeFile ==
    [isDir |-> FALSE, readable |-> TRUE, content |-> << [b |-> "x", n |-> SizeLimit + 1] >>]

UnreadableDir == [isDir |-> TRUE, readable |-> FALSE, content |-> <<>>]

IgnoreFile(lines) == [isDir |-> FALSE, readable |-> TRUE, content |-> Bytes(lines)]

\* A directory with an ignore file, an excluded file at two depths, a
\* directory that cannot be read before a file that can, a binary file, a
\* file that cannot be read and a file above the size threshold.
TreeD ==
    { MakeEntry(<<GitIgnoreName>>, IgnoreFile(<<"b", "\n">>)),
      MakeEntry(<<<<"a">> >>, TextFile),
      MakeEntry(<<<<"b">> >>, TextFile),
      MakeEntry(<<<<"c">> >>, Directory),
      MakeEntry(<<<<"c">>, <<"a">> >>, TextFile),
      MakeEntry(<<<<"c">>, <<"b">> >>, TextFile),
      MakeEntry(<<<<"k">> >>, UnreadableDir),
      MakeEntry(<<<<"k">>, <<"a">> >>, TextFile),
      MakeEntry(<<<<"n">> >>, TextFile),
      MakeEntry(<<<<"x">> >>, BinaryFile),
      MakeEntry(<<<<"y">> >>, UnreadableFile),
      MakeEntry(<<<<"z">> >>, LargeFile) }

TreeE ==
    { MakeEntry(<<<<"a">> >>, TextFile),
      MakeEntry(<<<<"b">> >>, TextFile) }

PathD == <<"d">>

PathE == <<"e">>

PathFile == <<"n", ".", "g", "o">>

PathMissing == <<"m">>

PathGone == <<"g">>

PathUnreadable == <<"u">>

PathTemp == TempDir \o <<"/", "e">>

\* A file and a directory whose own names begin with a dot; the directory
\* holds a hidden file and a file that is not hidden.
PathHiddenFile == <<".", "e", "n", "v">>

PathHiddenDir == <<".", "h">>

TreeH ==
    { MakeEntry(<<<<".", "s">> >>, TextFile),
      MakeEntry(<<<<"a">> >>, TextFile) }

\* Directories whose ignore file names the directory itself, and its file a
\* by a root-anchored pattern: given by a
\* relative path, by an absolute path, and in the temporary directory.
TreeI ==
    { MakeEntry(<<GitIgnoreName>>, IgnoreFile(<<"i", "\n", "/", "a", "\n">>)),
      MakeEntry(<<<<"a">> >>, TextFile) }

PathIgnored == <<"i">>

PathIgnoredAbs == <<"/", "v", "/", "i">>

PathIgnoredTemp == TempDir \o <<"/", "i">>

\* Files that processFile rejects.
PathBinary == <<"q">>

PathLarge == <<"l">>

PathNoRead == <<"o">>

TheDisk ==
    [p \in { Abs(PathD), Abs(PathE), Abs(PathFile), Abs(PathGone), Abs(PathUnreadable),
             PathTemp, Abs(PathHiddenFile), Abs(PathHiddenDir), Abs(PathIgnored),
             PathIgnoredAbs, PathIgnoredTemp, Abs(PathBinary), Abs(PathLarge),
             Abs(PathNoRead) } |->
        CASE p = Abs(PathD)          -> DirNode("ok", TreeD)
          [] p = Abs(PathE)          -> DirNode("ok", TreeE)
          [] p = Abs(PathFile)       -> FileNode([readable |-> TRUE, content |-> Bytes(<<"a">>)])
          [] p = Abs(PathGone)       -> DirNode("gone", {})
          [] p = Abs(PathUnreadable) -> DirNode("unreadable", TreeE)
          [] p = Abs(PathHiddenFile) -> FileNode([readable |-> TRUE, content |-> Bytes(<<"a">>)])
          [] p = Abs(PathHiddenDir)  -> DirNode("ok", TreeH)
          [] p \in {Abs(PathIgnored), PathIgnoredAbs, PathIgnoredTemp}
                                     -> DirNode("ok", TreeI)
          [] p = Abs(PathBinary)     -> FileNode([readable |-> TRUE,
                                                  content |-> BinaryFile.content])
          [] p = Abs(PathLarge)      -> FileNode([readable |-> TRUE,
                                                  content |-> LargeFile.content])
          [] p = Abs(PathNoRead)     -> FileNode([readable |-> FALSE, content |-> <<>>])
          [] OTHER                   -> DirNode("ok", TreeE)]

RootsAndGlob == <<" ", "e", ",", " ", "r", " ", ",", "n", "*">>

ArgPaths == { PathD, PathE, PathFile, PathMissing, PathGone, PathUnreadable, PathTemp }

\* -x: nothing, a name of a file, and two names of roots with spaces around
\* them followed by a glob.
ExcludeFlags == { <<>>, <<"b">>, RootsAndGlob }

RepoURLs == { <<>>, <<"h", "/", "r", ".", "g", "i", "t">> }

Prompts == { <<>>, <<"p">> }

FollowUps == { <<>>, PathFile }

\* -s, -o and -t: to the clipboard, to the terminal's clipboard, to stdout, to
\* a file, and -s together with -o.
OutputModes == {"clipboard", "term", "stdout", "file", "both"}

CommandLine(x, g, paths, p, f) ==
    [x |-> x, g |-> g, paths |-> paths, p |-> p, f |-> f, out |-> "clipboard"]

TheRepo == <<"h", "/", "r", ".", "g", "i", "t">>

\* The paths given together: two directories, one of them with an ignore
\* file, a directory in the temporary directory, a directory that is gone
\* when its walk begins and a path that does not exist.
SeveralPaths == { PathD, PathE, PathTemp, PathGone, PathMissing }

HiddenPaths == { PathHiddenFile, PathHiddenDir }

SelfIgnoredPaths == { PathIgnored, PathIgnoredAbs, PathIgnoredTemp }

RejectedFollowUps == { PathBinary, PathLarge, PathNoRead, PathHiddenFile, PathMissing }

HiddenGlob == <<".", "*">>

\* -x with root-anchored patterns: /c/, /a, /* and /
AnchoredFlags ==
    { <<"/", "a">>, <<"/", "c", "/", ",", "/", "a", ",", "/", "*", ",", "/">> }

\* Every combination of the flags with at most one positional argument, and
\* up to MaxTargets positional arguments with three combinations of the
\* flags: everything but -x, -x alone, and -x with -g; each output mode;
\* targets with hidden names; targets whose ignore file names them; and -f
\* files that are rejected or have a hidden name.
CommandLines ==
    { CommandLine(x, g, paths, p, f) :
          x \in ExcludeFlags, g \in RepoURLs, paths \in SeqsUpTo(ArgPaths, 1),
          p \in Prompts, f \in FollowUps }
    \cup { CommandLine(<<>>, TheRepo, paths, <<"p">>, PathFile) :
               paths \in SeqsUpTo(SeveralPaths, MaxTargets) }
    \cup { CommandLine(<<"b">>, <<>>, paths, <<>>, <<>>) :
               paths \in SeqsUpTo(SeveralPaths, MaxTargets) }
    \cup { CommandLine(RootsAndGlob, TheRepo, paths, <<>>, <<>>) :
               paths \in SeqsUpTo(SeveralPaths, MaxTargets) }
    \cup { [CommandLine(<<>>, g, paths, <<>>, <<>>) EXCEPT !.out = out] :
               g \in RepoURLs, paths \in SeqsUpTo({PathD, PathUnreadable}, 1),
               out \in OutputModes }
    \cup { CommandLine(x, <<>>, paths, <<>>, <<>>) :
               x \in { <<>>, HiddenGlob }, paths \in SeqsUpTo(HiddenPaths, MaxTargets) }
    \cup { CommandLine(<<>>, <<>>, paths, <<>>, <<>>) :
               paths \in SeqsUpTo(SelfIgnoredPaths, MaxTargets) }
    \cup { CommandLine(x, <<>>, <<path>>, <<>>, <<>>) :
               x \in AnchoredFlags, path \in {PathD, PathE, PathIgnoredTemp} }
    \cup { CommandLine(x, <<>>, paths, p, f) :
               x \in { <<>>, HiddenGlob }, paths \in SeqsUpTo({PathE}, 1),
               p \in Prompts, f \in RejectedFollowUps }

InitMain ==
    /\ args \in CommandLines
    /\ disk = TheDisk
    /\ pc = "main"
    /\ globalExcludePatterns = <<>>
    /\ targetsToProcess = <<>>
    /\ tidx = 0
    /\ previous = <<>>
    /\ fs = {}
    /\ excludePatterns = <<>>
    /\ baseDisplayPath = <<>>
    /\ absDirPath = <<>>
    /\ todo = <<>>
    /\ visited = <<>>
    /\ builder = <<>>
    /\ stderr = <<>>
    /\ call = <<>>
    /\ ret = <<>>

NextMain ==
    \/ ParseFlags
    \/ CollectTargets
    \/ SkipTarget
    \/ WalkTarget
    \/ FileTarget
    \/ StartWalk
    \/ WalkRootGone
    \/ WalkRootUnreadable
    \/ SkipExcluded
    \/ SkipHiddenDir
    \/ EnterDir
    \/ EnterUnreadableDir
    \/ SkipHiddenFile
    \/ VisitFile
    \/ WalkDone
    \/ AppendPrompt
    \/ AppendFollowUp
    \/ GitMissing
    \/ MkdirTempFails
    \/ CloneFails
    \/ DeliveryFails
    \/ Return
    \/ Rerun

SpecMain == InitMain /\ [][NextMain]_vars

-----------------------------------------------------------------------------
(* readGitIgnore on its own: one call on a directory.                      *)

MaxLines == 2

\* A line of as many bytes as bufio.Scanner holds at most.
LongLine == << [b |-> "x", n |-> MaxScanTokenSize] >>

\* The lines an ignore file is made of: a pattern with blanks around it, a
\* comment, a negation, an empty line, a blank line, a directory pattern and
\* the long line.
IgnoreLines ==
    { Bytes(<<" ", "b", " ">>), Bytes(<<"#", "c">>), Bytes(<<"!", "a">>), <<>>,
      Bytes(<<" ">>), Bytes(<<"a", "/">>), LongLine }

\* The lines joined by newlines.
RECURSIVE JoinLines(_)
JoinLines(lines) ==
    IF lines = <<>> THEN <<>>
    ELSE IF Len(lines) = 1 THEN lines[1]
    ELSE lines[1] \o Bytes(<<"\n">>) \o JoinLines(Tail(lines))

\* The contents of an ignore file: up to MaxLines lines, with or without a
\* newline after the last one.
IgnoreContents ==
    { JoinLines(lines) \o end :
          lines \in SeqsUpTo(IgnoreLines, MaxLines), end \in {<<>>, Bytes(<<"\n">>)} }

\* What stands at the root under the name .gitignore: nothing, a file that
\* cannot be opened, a directory, or a file with one of the contents.
RootIgnoreEntries ==
    { {},
      { MakeEntry(<<GitIgnoreName>>, UnreadableFile) },
      { MakeEntry(<<GitIgnoreName>>, Directory) } }
    \cup { { MakeEntry(<<GitIgnoreName>>,
                       [isDir |-> FALSE, readable |-> TRUE, content |-> content]) } :
               content \in IgnoreContents }

\* A subdirectory, with or without an ignore file of its own.
SubDirEntries ==
    { { MakeEntry(<<<<"c">> >>, Directory) },
      { MakeEntry(<<<<"c">> >>, Directory),
        MakeEntry(<<<<"c">>, GitIgnoreName>>, IgnoreFile(<<"n", "\n">>)) } }

IgnoreTrees == { root \cup sub : root \in RootIgnoreEntries, sub \in SubDirEntries }

InitIgnore ==
    /\ disk \in { [p \in {AbsRoot} |-> DirNode("ok", tree)] : tree \in IgnoreTrees }
    /\ absDirPath = AbsRoot
    /\ pc = "ignore"
    /\ ret = <<>>
    /\ call = <<>>
    /\ NoMain
    /\ fs = {}
    /\ excludePatterns = <<>>
    /\ baseDisplayPath = <<>>
    /\ todo = <<>>
    /\ visited = <<>>
    /\ builder = <<>>
    /\ stderr = <<>>

CallReadGitIgnore ==
    /\ pc = "ignore"
    /\ ret' = [patterns |-> readGitIgnore(absDirPath)]
    /\ pc' = "ignored"
    /\ UNCHANGED <<fs, excludePatterns, baseDisplayPath, todo, visited, builder, stderr, call>>
    /\ UNCHANGED <<absDirPath, mainVars>>

NextIgnore == CallReadGitIgnore

SpecIgnore == InitIgnore /\ [][NextIgnore]_vars

-----------------------------------------------------------------------------
(* getLanguageHint on its own: one call on a path.                         *)

\* The directories the file is named in: none, the root, and directories
\* whose own names look like an extension or a special name.
HintDirs ==
    { <<>>, <<"/">>, <<"d", ".", "g", "o", "/">>, <<"M", "a", "k", "e", "f", "i", "l", "e", "/">>,
      <<".", "h", "/", "c", "/">> }

HintStems ==
    { <<>>, <<"n">>, <<"N", ".", "t", "a", "r">>, <<"M", "a", "k", "e", "f", "i", "l", "e">>,
      <<".", "e", "n", "v">> }

HintExtensions ==
    { <<>>, <<".">>, <<".", "g", "o">>, <<".", "G", "o">>, <<".", "M", "D">>, <<".", "h">>,
      <<".", "H", "H">>, <<".", "z", "z">>, <<".", "Z">>,
      <<".", "d", "o", "c", "k", "e", "r", "f", "i", "l", "e">>,
      <<".", "t", "x", "t">>, <<".", "y", "m", "l">> }

HintSpecials ==
    { <<"M", "a", "k", "e", "f", "i", "l", "e">>, <<"m", "a", "k", "e", "f", "i", "l", "e">>,
      <<"D", "o", "c", "k", "e", "r", "f", "i", "l", "e">>,
      <<"C", "o", "n", "t", "a", "i", "n", "e", "r", "f", "i", "l", "e">>,
      <<"C", "A", "D", "D", "Y", "F", "I", "L", "E">>,
      <<"G", "N", "U", "m", "a", "k", "e", "f", "i", "l", "e">> }

\* File names: a stem and an extension, not both empty, and the special names.
HintNames ==
    ({ stem \o ext : stem \in HintStems, ext \in HintExtensions } \ { <<>> })
    \cup HintSpecials

InitHint ==
    /\ call \in { [dir |-> dir, name |-> name] : dir \in HintDirs, name \in HintNames }
    /\ pc = "hint"
    /\ ret = <<>>
    /\ builder = <<>>
    /\ fs = {}
    /\ absDirPath = <<>>
    /\ disk = <<>>
    /\ NoMain
    /\ excludePatterns = <<>>
    /\ baseDisplayPath = <<>>
    /\ todo = <<>>
    /\ visited = <<>>
    /\ stderr = <<>>

CallGetLanguageHint ==
    /\ pc = "hint"
    /\ ret' = [hint |-> getLanguageHint(call.dir \o call.name)]
    /\ pc' = "hinted"
    /\ UNCHANGED <<fs, excludePatterns, baseDisplayPath, todo, visited, builder, stderr,
                   call, absDirPath, mainVars>>

NextHint == CallGetLanguageHint

SpecHint == InitHint /\ [][NextHint]_vars

-----------------------------------------------------------------------------
(* Properties of the walk (Spec).                                          *)

Occurs(sub, s) ==
    \E i \in 0..(Len(s) - Len(sub)) : SubSeq(s, i + 1, i + Len(sub)) = sub

\* The opening fence line of the block of entry e.
OpeningLine(e) ==
    Bytes(Fence \o Header(AbsPath(e), DisplayPath(baseDisplayPath, e)) \o <<"\n">>)

\* The output buffer holds a Serialized Block for entry e.
HasBlock(e) == builder # <<>> /\ Occurs(OpeningLine(e), builder)

\* The walk callback has been called with entry e.
WasVisited(e) == visited # <<>> /\ \E i \in 1..Len(visited) : visited[i] = RelPath(e)

\* The relative path of the ancestor of e at depth k (of e itself at k = Len).
PathAt(e, k) == JoinNames(SubSeq(e.path, 1, k))

Ancestors(e) == 1..(Len(e.path) - 1)

PassesGates(e) == e.readable /\ ~TooLarge(e.content) /\ ~isBinary(e.content)

InPolicy(pattern) == \E i \in 1..Len(excludePatterns) : excludePatterns[i] = pattern

\* C1: no block is produced for a file whose path below the root has a
\* component beginning with ".", whatever the policy, and nothing beneath a
\* hidden directory is ever visited.
C1_HiddenNeverSerialized ==
    \A e \in fs :
        /\ (~e.isDir /\ \E k \in 1..Len(e.path) : HasPrefix(e.path[k], <<".">>))
               => ~HasBlock(e)
        /\ (\E k \in Ancestors(e) : HasPrefix(e.path[k], <<".">>))
               => ~WasVisited(e)

\* A finished walk with the empty policy over a tree holding a file in .git
\* and a file that was serialized.
C1_Witness ==
    /\ pc = "done"
    /\ excludePatterns = <<>>
    /\ builder # <<>>
    /\ \E e \in fs : ~e.isDir /\ e.path = <<DotGit, <<"a">> >> /\ PassesGates(e)

\* C2: an entry beneath a directory the policy excludes is never visited nor
\* serialized, and a file the policy excludes is not serialized.
C2_ExcludedPruned ==
    \A e \in fs :
        /\ \/ ~WasVisited(e) /\ ~HasBlock(e)
           \/ ~\E k \in Ancestors(e) : isExcluded(PathAt(e, k), excludePatterns).excluded
        /\ \/ ~HasBlock(e)
           \/ ~(~e.isDir /\ isExcluded(RelPath(e), excludePatterns).excluded)

\* A finished walk over a tree with a file that is not excluded itself, not
\* hidden, and lies in an excluded directory, and with a serialized file.
C2_Witness ==
    /\ pc = "done"
    /\ builder # <<>>
    /\ \E e \in fs :
          /\ ~e.isDir /\ Len(e.path) = 2 /\ PassesGates(e)
          /\ ~HasPrefix(e.path[1], <<".">>) /\ ~HasPrefix(e.path[2], <<".">>)
          /\ isExcluded(PathAt(e, 1), excludePatterns).excluded
          /\ ~isExcluded(RelPath(e), excludePatterns).excluded

\* Nothing beneath a directory named N is visited or serialized.
PrunedBelow(N) ==
    \A e \in fs :
        (\E k \in Ancestors(e) : e.path[k] = N) => (~WasVisited(e) /\ ~HasBlock(e))

\* C3 as stated: for every slash-free name N, a policy containing "N/" prunes
\* every directory named N, at the root or deeper.
C3_AsStated ==
    \A N \in EntryNames : InPolicy(N \o <<"/">>) => PrunedBelow(N)

\* C3 amended: the same for every name N that holds neither "[" nor a
\* backslash, the characters a glob does not match literally.
C3_DirSuffixPrunes ==
    \A N \in EntryNames :
        (~Contains(N, "[") /\ ~Contains(N, "\\") /\ InPolicy(N \o <<"/">>))
            => PrunedBelow(N)

\* A finished walk under a policy holding "b/" over a tree with a file in a
\* directory b that lies one level below the root.
C3_Witness ==
    /\ pc = "done"
    /\ InPolicy(<<"b", "/">>)
    /\ \E e \in fs : ~e.isDir /\ Len(e.path) = 3 /\ e.path[1] = <<"a">> /\ e.path[2] = <<"b">>

NotDirSuffix(pattern) == ~HasSuffix(TrimSpace(pattern), <<"/">>)

\* C6: a pattern suffixed with "/" never causes a regular file to be skipped:
\* when the walk is over, every file that was visited, is not hidden, passes
\* the gates and is not excluded by the patterns without the suffix has a block.
C6_DirSuffixSparesFiles ==
    pc = "done" =>
        \A e \in fs :
            ( /\ ~e.isDir
              /\ WasVisited(e)
              /\ ~IsHiddenFile(Name(e))
              /\ PassesGates(e)
              /\ ~isExcluded(RelPath(e), SelectSeq(excludePatterns, NotDirSuffix)).excluded )
                => HasBlock(e)

-----------------------------------------------------------------------------
(* Properties of isExcluded (SpecMatch).                                   *)

Returned == pc = "returned"

\* The pattern glob-matches the base name of the path.
GlobMatchesBase(pattern, path) == Match(pattern, Base(path)).matched

\* The pattern, or the pattern stripped of its trailing "/", glob-matches the
\* full relative path.
MatchesFullPath(pattern, path) ==
    \/ Match(pattern, path).matched
    \/ HasSuffix(pattern, <<"/">>) /\ Match(TrimSuffix(pattern, <<"/">>), path).matched

\* The pattern, the stripped pattern or the pattern's last element glob-matches
\* the base name of the path.
MatchesBaseName(pattern, path) ==
    \/ GlobMatchesBase(pattern, path)
    \/ GlobMatchesBase(TrimSuffix(pattern, <<"/">>), path)
    \/ GlobMatchesBase(Base(pattern), path)

\* The call returned "excluded" on account of this pattern.
ExcludedBy(pattern) == ret.excluded /\ ret.pattern = pattern

\* C4: a pattern without a separator that glob-matches the base name of the
\* path makes isExcluded return true, whatever the depth of the path.
C4_BaseNameMatchExcludes ==
    Returned =>
        \A i \in 1..Len(call.patterns) :
            ( /\ ~Contains(call.patterns[i], "/")
              /\ GlobMatchesBase(call.patterns[i], call.path) )
                => ret.excluded

\* A call that returned true for a nested path on a wildcard pattern that
\* matches the base name and not the path.
C4_Witness ==
    /\ Returned
    /\ ret.excluded
    /\ Contains(call.path, "/")
    /\ \E i \in 1..Len(call.patterns) :
          /\ ~Contains(call.patterns[i], "/")
          /\ Contains(call.patterns[i], "*")
          /\ GlobMatchesBase(call.patterns[i], call.path)
          /\ ~Match(call.patterns[i], call.path).matched

\* C5 as stated: a pattern with a separator, a trailing one included, does not
\* exclude a path it matches by base name only.
C5_AsStated ==
    Returned =>
        \A i \in 1..Len(call.patterns) :
            ( /\ Contains(call.patterns[i], "/")
              /\ MatchesBaseName(call.patterns[i], call.path)
              /\ ~MatchesFullPath(call.patterns[i], call.path) )
                => ~ExcludedBy(call.patterns[i])

\* C5 amended: the same for a pattern that still holds a separator once its
\* trailing "/" is stripped.
C5_PathScopedNeedsFullMatch ==
    Returned =>
        \A i \in 1..Len(call.patterns) :
            ( /\ Contains(TrimSuffix(call.patterns[i], <<"/">>), "/")
              /\ MatchesBaseName(call.patterns[i], call.path)
              /\ ~MatchesFullPath(call.patterns[i], call.path) )
                => ~ExcludedBy(call.patterns[i])

\* A call that returned false on a path-scoped pattern whose last element
\* matches the base name of the path.
C5_Witness ==
    /\ Returned
    /\ ~ret.excluded
    /\ \E i \in 1..Len(call.patterns) :
          /\ Contains(TrimSuffix(call.patterns[i], <<"/">>), "/")
          /\ MatchesBaseName(call.patterns[i], call.path)
          /\ ~MatchesFullPath(call.patterns[i], call.path)

\* The glob syntax of a pattern over PatternBytes, from byte i on: a "[" opens
\* a class, which needs a first member other than "]" and then a closing "]".
RECURSIVE WellFormedFrom(_, _)
WellFormedFrom(pattern, i) ==
    IF i > Len(pattern) THEN TRUE
    ELSE IF pattern[i] # "[" THEN WellFormedFrom(pattern, i + 1)
    ELSE /\ i + 1 <= Len(pattern)
         /\ pattern[i + 1] # "]"
         /\ \E k \in (i + 2)..Len(pattern) :
                /\ pattern[k] = "]"
                /\ \A j \in (i + 2)..(k - 1) : pattern[j] # "]"
                /\ WellFormedFrom(pattern, k + 1)

Malformed(pattern) == ~WellFormedFrom(pattern, 1)

\* C24: a malformed pattern matches no path: the pattern returned with
\* "excluded" is never a malformed one, and the call excludes the path
\* exactly when one of the well-formed patterns of the list excludes it,
\* wherever the malformed ones stand in the list.
C24_MalformedNeverMatches ==
    Returned =>
        /\ ret.excluded => ~Malformed(ret.pattern)
        /\ ret.excluded =
              \E i \in 1..Len(call.patterns) :
                  /\ ~Malformed(call.patterns[i])
                  /\ patternExcludes(call.patterns[i], call.path, Base(call.path))

\* A call that returned "excluded" on the pattern that follows a malformed
\* one.
C24_Witness ==
    /\ Returned
    /\ Len(call.patterns) = 2
    /\ Malformed(call.patterns[1])
    /\ ExcludedBy(call.patterns[2])

-----------------------------------------------------------------------------
(* Properties of isExcluded on a policy (SpecPolicy).                      *)

\* The disjunction of the per-pattern results.
AnyExcludes(path, patterns) ==
    \E i \in 1..Len(patterns) : patternExcludes(patterns[i], path, Base(path))

BlankPattern(pattern) == TrimSpace(pattern) = <<>>

\* The list with its first two patterns swapped, and with its first pattern
\* moved to the end: every order of the list comes from these two.
SwapFirstTwo(s) == IF Len(s) < 2 THEN s ELSE <<s[2], s[1]>> \o SubSeq(s, 3, Len(s))

Rotate(s) == IF s = <<>> THEN s ELSE Tail(s) \o <<s[1]>>

\* The list without its empty and whitespace-only patterns.
RECURSIVE WithoutBlanks(_)
WithoutBlanks(s) ==
    IF s = <<>> THEN <<>>
    ELSE (IF BlankPattern(s[1]) THEN <<>> ELSE <<s[1]>>) \o WithoutBlanks(Tail(s))

\* C25: the boolean isExcluded returns is the disjunction of the per-pattern
\* results: the same for the list in another order, for the list with every
\* pattern twice, and for the list without its empty and whitespace-only
\* patterns; the empty list excludes nothing.
C25_DisjunctionOfPatterns ==
    Returned =>
        LET path == call.path
            patterns == call.patterns
        IN  /\ ret.excluded = AnyExcludes(path, patterns)
            /\ isExcluded(path, SwapFirstTwo(patterns)).excluded = ret.excluded
            /\ isExcluded(path, Rotate(patterns)).excluded = ret.excluded
            /\ isExcluded(path, patterns \o patterns).excluded = ret.excluded
            /\ isExcluded(path, WithoutBlanks(patterns)).excluded = ret.excluded
            /\ patterns = <<>> => ~ret.excluded

\* A call that returned "excluded" on the last of three patterns, the one
\* before it blank, and returns the same with the last pattern first.
C25_Witness ==
    /\ Returned
    /\ Len(call.patterns) = 3
    /\ BlankPattern(call.patterns[2])
    /\ ~BlankPattern(call.patterns[1])
    /\ ~patternExcludes(call.patterns[1], call.path, Base(call.path))
    /\ ExcludedBy(call.patterns[3])
    /\ isExcluded(call.path, Rotate(Rotate(call.patterns))).pattern = call.patterns[3]

-----------------------------------------------------------------------------
(* Properties of processFile (SpecFile).                                   *)

HasNul(content) == \E k \in 1..Len(content) : content[k].b = "NUL"

Content == call.file.content

\* What the call appended to the buffer.
Appended == SubSeq(builder, Len(call.before) + 1, Len(builder))

BufferUntouched == builder = call.before

\* C7: a readable file without NUL is serialized in full when it holds at most
\* 1 MiB, and skipped when it holds more.
C7_SizeGate ==
    (Returned /\ call.file.readable /\ ~HasNul(Content)) =>
        IF ByteLen(Content) <= 1048576
        THEN /\ ret = "Adding file"
             /\ Occurs(Content, Appended)
             /\ ByteLen(Appended) >= ByteLen(Content)
        ELSE /\ ret = "Skipping large file"
             /\ BufferUntouched

\* A file of exactly 1 MiB that was serialized.
C7_Witness ==
    /\ Returned
    /\ call.file.readable
    /\ ~HasNul(Content)
    /\ ByteLen(Content) = 1048576
    /\ Occurs(Content, Appended)
    /\ ~BufferUntouched

\* The content starts with a pair of NULs and holds no other NUL.
PairedLeadingNuls(content) ==
    /\ Len(content) >= 3
    /\ content[1] = [b |-> "NUL", n |-> 1]
    /\ content[2] = [b |-> "NUL", n |-> 1]
    /\ \A k \in 3..Len(content) : content[k].b # "NUL"

\* C8: a content that starts with a pair of NULs followed by text without NUL
\* is serialized as text.
C8_PairedNulsTolerated ==
    ( /\ Returned
      /\ call.file.readable
      /\ PairedLeadingNuls(Content)
      /\ ByteLen(Content) <= 1048576 )
        => (ret = "Adding file" /\ Occurs(Content, Appended))

NL == Bytes(<<"\n">>)

ClosingFence == Bytes(Fence \o <<"\n">>)

\* The opening fence line as the claim words it: the hint and one space only
\* when there is a hint, then the display path.
OpeningFence ==
    LET hint == getLanguageHint(call.abs) IN
    Bytes(Fence \o (IF hint = <<>> THEN <<>> ELSE hint \o <<" ">>) \o call.display \o <<"\n">>)

SeparatorIfNonEmpty == IF call.before # <<>> THEN Bytes(<<"\n", "\n">>) ELSE <<>>

Serialized == Returned /\ ret = "Adding file"

\* C9 as stated: the bytes appended are the separator (iff the buffer was not
\* empty), the opening fence line, the content, the closing fence line.
C9_AsStated ==
    Serialized =>
        Appended = SeparatorIfNonEmpty \o OpeningFence \o Content \o ClosingFence

\* C9 amended: between the content and the closing fence line comes a newline
\* when the content is not empty and does not end with one.
C9_EmissionFormat ==
    Serialized =>
        Appended = SeparatorIfNonEmpty \o OpeningFence \o Content
                       \o (IF Content # <<>> /\ LastByte(Content) # "\n" THEN NL ELSE <<>>)
                       \o ClosingFence

\* A file with a hint and no final newline serialized into a buffer that was
\* not empty.
C9_Witness ==
    /\ Serialized
    /\ call.before # <<>>
    /\ getLanguageHint(call.abs) # <<>>
    /\ Content # <<>>
    /\ LastByte(Content) # "\n"

\* The number of bytes written between the content and the closing fence line.
BytesAfterContent ==
    ByteLen(Appended) - ByteLen(SeparatorIfNonEmpty) - ByteLen(OpeningFence)
        - ByteLen(Content) - ByteLen(ClosingFence)

NewlineAppended ==
    BytesAfterContent = 1 /\ HasSuffix(builder, Content \o NL \o ClosingFence)

NoNewlineAppended ==
    BytesAfterContent = 0 /\ HasSuffix(builder, Content \o ClosingFence)

EndsWithNewline(content) == content # <<>> /\ LastByte(content) = "\n"

\* C10 as stated: one newline is appended exactly when the content does not
\* end with a newline, the empty content included.
C10_AsStated ==
    Serialized =>
        IF EndsWithNewline(Content) THEN NoNewlineAppended ELSE NewlineAppended

\* C10 amended: one newline is appended exactly when the content is not empty
\* and does not end with a newline; none is appended to the empty content.
C10_NewlineWhenMissing ==
    Serialized =>
        IF Content = <<>> \/ EndsWithNewline(Content)
        THEN NoNewlineAppended
        ELSE NewlineAppended

\* A serialized file whose content is not empty and lacks the final newline.
C10_Witness ==
    /\ Serialized
    /\ Content # <<>>
    /\ ~EndsWithNewline(Content)
    /\ NewlineAppended

\* processFile rejects the file: it cannot be read, holds more than the
\* threshold, or is classified as binary.
Rejected == ~call.file.readable \/ TooLarge(Content) \/ isBinary(Content)

\* C17: when processFile rejects a file, the buffer after the call is the
\* buffer before it, byte for byte, and the call reports the skip; a file
\* that is not rejected is added.
C17_AllOrNothing ==
    Returned =>
        IF Rejected
        THEN /\ BufferUntouched
             /\ ret \in {"Error reading file", "Skipping large file",
                         "Skipping likely binary file"}
        ELSE ret = "Adding file" /\ ~BufferUntouched

\* A file above the threshold was rejected with a block already in the buffer.
C17_Witness ==
    /\ Returned
    /\ call.before # <<>>
    /\ ret = "Skipping large file"
    /\ BufferUntouched

-----------------------------------------------------------------------------
(* Properties of main (SpecMain).                                          *)

\* The bytes of the output buffer, which holds one run for each byte.
OutputBytes == [i \in 1..Len(builder) |-> builder[i].b]

Least(S) == CHOOSE i \in S : \A j \in S : i <= j

\* The offsets at which the lines of bytes start.
LineStarts(bytes) == {1} \cup {i + 1 : i \in {j \in 1..Len(bytes) : bytes[j] = "\n"}}

\* The line that starts at offset s, without its newline.
LineAt(bytes, s) ==
    LET ends == {i \in s..Len(bytes) : bytes[i] = "\n"} IN
    SubSeq(bytes, s, IF ends = {} THEN Len(bytes) ELSE Least(ends) - 1)

IsOpeningLine(line) == HasPrefix(line, Fence) /\ Len(line) > Len(Fence)

\* The offsets of the opening fence lines, and of the closing ones.
Openings(bytes) == {s \in LineStarts(bytes) : IsOpeningLine(LineAt(bytes, s))}

Closings(bytes) == {s \in LineStarts(bytes) : LineAt(bytes, s) = Fence}

\* The labels of the opening fence lines that start at the offsets in starts,
\* in the order of the buffer.
RECURSIVE LabelsAt(_, _)
LabelsAt(bytes, starts) ==
    IF starts = {} THEN <<>>
    ELSE LET s    == Least(starts)
             line == LineAt(bytes, s)
         IN  << SubSeq(line, Len(Fence) + 1, Len(line)) >> \o LabelsAt(bytes, starts \ {s})

\* s is t with some elements left out.
RECURSIVE IsSubSeq(_, _)
IsSubSeq(s, t) ==
    IF s = <<>> THEN TRUE
    ELSE IF t = <<>> THEN FALSE
    ELSE IF Head(s) = Head(t) THEN IsSubSeq(Tail(s), Tail(t))
    ELSE IsSubSeq(s, Tail(t))

\* The label of a block: the hint and a space when there is a hint, then the
\* display path.
BlockLabel(absPath, displayPath) ==
    LET hint == getLanguageHint(absPath) IN
    (IF hint = <<>> THEN <<>> ELSE hint \o <<" ">>) \o displayPath

\* Depth-first pre-order of two paths below one root: a directory comes
\* before what it holds, and siblings come in the byte order of their names.
RECURSIVE PathBefore(_, _)
PathBefore(p, q) ==
    IF p = <<>> THEN q # <<>>
    ELSE IF q = <<>> THEN FALSE
    ELSE IF Head(p) = Head(q) THEN PathBefore(Tail(p), Tail(q))
    ELSE NameLess(Head(p), Head(q))

RECURSIVE InPreOrder(_)
InPreOrder(S) ==
    IF S = {} THEN <<>>
    ELSE LET first == CHOOSE e \in S : \A o \in S \ {e} : PathBefore(e.path, o.path)
         IN  <<first>> \o InPreOrder(S \ {first})

\* The tree a directory target stands for: the clone is gone once main returned.
TreeOf(t) == IF Exists(t.absPath) THEN disk[t.absPath].tree ELSE RemoteTree

\* The labels of all the files of target t, in pre-order.
LabelsOfTarget(t) ==
    IF ~t.isDir THEN << BlockLabel(t.absPath, t.displayBase) >>
    ELSE LET files == InPreOrder({e \in TreeOf(t) : ~e.isDir}) IN
         [k \in 1..Len(files) |->
             BlockLabel(t.absPath \o <<"/">> \o JoinNames(files[k].path),
                        Clean(t.displayBase \o <<"/">> \o JoinNames(files[k].path)))]

\* The labels of the files of the targets i.., target after target.
RECURSIVE LabelsFrom(_)
LabelsFrom(i) ==
    IF i > Len(targetsToProcess) THEN <<>>
    ELSE LabelsOfTarget(targetsToProcess[i]) \o LabelsFrom(i + 1)

PromptDone == args # <<>> /\ args.p # <<>> /\ pc \in {"followup", "output", "exited"}

FollowUpDone == args # <<>> /\ args.f # <<>> /\ pc \in {"output", "exited"}

FollowUpLabel == BlockLabel(Abs(args.f), DisplayBase(args.f))

\* The follow-up file is a regular file that passes the gates of processFile.
FollowUpServed ==
    /\ Exists(Abs(args.f))
    /\ disk[Abs(args.f)].kind = "file"
    /\ disk[Abs(args.f)].file.readable
    /\ ~TooLarge(disk[Abs(args.f)].file.content)
    /\ ~isBinary(disk[Abs(args.f)].file.content)

\* The offsets of the lines that hold the prompt and nothing else.
PromptStarts(bytes) == {s \in LineStarts(bytes) : LineAt(bytes, s) = args.p}

\* C11: when the buffer is complete, the blocks of the targets stand in it
\* target after target, in the order of the target list (the clone first), and
\* within one target in depth-first pre-order; the prompt stands after every
\* block of a target; the block of the follow-up file stands last.
C11_ArtifactOrder ==
    pc = "output" =>
    LET bytes == OutputBytes
        open  == Openings(bytes)
    IN  /\ ~PromptDone =>
               IsSubSeq(LabelsAt(bytes, open),
                        LabelsFrom(1) \o (IF FollowUpDone THEN <<FollowUpLabel>> ELSE <<>>))
        /\ PromptDone =>
               \E i \in PromptStarts(bytes) :
                   /\ IsSubSeq(LabelsAt(bytes, {s \in open : s < i}), LabelsFrom(1))
                   /\ LabelsAt(bytes, {s \in open : s > i}) =
                          (IF FollowUpDone /\ FollowUpServed THEN <<FollowUpLabel>> ELSE <<>>)
        /\ (FollowUpDone /\ FollowUpServed) =>
               \E i \in open :
                   /\ LineAt(bytes, i) = Fence \o FollowUpLabel
                   /\ \A j \in open : j <= i
                   /\ Cardinality({j \in Closings(bytes) : j > i}) = 1
                   /\ HasSuffix(bytes, Fence \o <<"\n">>)

\* The run is over with the clone and two directories serialized, a file in
\* a subdirectory among them, then the prompt, then the follow-up file.
C11_Witness ==
    /\ pc = "output"
    /\ args.g # <<>>
    /\ args.paths = <<PathD, PathE>>
    /\ args.x = <<>>
    /\ args.p # <<>>
    /\ args.f # <<>>
    /\ Cardinality(Openings(OutputBytes)) >= 8

\* The target the loop took up last.
CurrentTarget == targetsToProcess[tidx]

InTargetLoop == pc \in {"targets", "start", "walk", "done"} /\ tidx >= 1

\* C12: from the moment a target is taken up until the next one is, the
\* policy in use is the patterns of -x in their order followed, for a
\* directory, by the patterns of the ignore file at its root and by nothing
\* else; the global list is what -x gave, whatever targets were processed.
C12_PolicyPerTarget ==
    /\ pc # "main" => globalExcludePatterns = ParseExcludes(args.x)
    /\ InTargetLoop =>
           excludePatterns =
               ParseExcludes(args.x)
                   \o (IF CurrentTarget.isDir THEN readGitIgnore(CurrentTarget.absPath)
                       ELSE <<>>)

\* A directory without an ignore file has been walked with the three patterns
\* of -x alone, after a directory whose ignore file gave a fourth, and the
\* file that third pattern names was visited.
C12_Witness ==
    /\ pc = "done"
    /\ tidx = 3
    /\ args.paths = <<PathD, PathTemp>>
    /\ Len(readGitIgnore(targetsToProcess[2].absPath)) = 1
    /\ Len(globalExcludePatterns) = 3
    /\ excludePatterns = globalExcludePatterns
    /\ \E i \in 1..Len(visited) : visited[i] = <<"b">>

Logged(diag) == \E i \in 1..Len(stderr) : stderr[i] = diag

\* The labels of the opening fence lines of the buffer.
LabelsOfBuffer == LET bytes == OutputBytes IN
    { SubSeq(LineAt(bytes, s), Len(Fence) + 1, Len(LineAt(bytes, s))) : s \in Openings(bytes) }

\* The root of target t is a transient location.
Transient(t) == HasPrefix(t.absPath, TempDir)

\* The policy of target t as C12 gives it.
PolicyOf(t) == ParseExcludes(args.x) \o (IF t.isDir THEN readGitIgnore(t.absPath) ELSE <<>>)

\* The labels target t would give that the buffer holds.
BlocksOf(t) == {l \in LabelsOfBuffer : \E k \in 1..Len(LabelsOfTarget(t)) : LabelsOfTarget(t)[k] = l}

\* Target t was handed to processDirectory or to processFile.
Traversed(t) ==
    IF t.isDir THEN Logged(Diag("Processing directory", t.displayBase, <<>>))
    ELSE \E i \in 1..Len(stderr) :
             /\ stderr[i].path = t.displayBase
             /\ stderr[i].msg \in {"Adding file", "Error reading file", "Skipping large file",
                                   "Skipping likely binary file"}

\* C13: when the loop over the targets has ended, every target whose root is
\* not transient and whose cleaned display root the policy excludes was
\* reported as skipped with the matching pattern, was not traversed and has
\* no block; every other target, before or after it, and every target with
\* a transient root, was traversed and not reported as skipped.
C13_RootPreCheck ==
    LoopOver =>
    \A i \in 1..Len(targetsToProcess) :
        LET t   == targetsToProcess[i]
            hit == isExcluded(Clean(t.displayBase), PolicyOf(t))
        IN  IF ~Transient(t) /\ hit.excluded
            THEN /\ Logged(Diag("Skipping path", t.displayBase, hit.pattern))
                 /\ ~Traversed(t)
                 /\ BlocksOf(t) = {}
            ELSE /\ Traversed(t)
                 /\ \A k \in 1..Len(stderr) :
                        ~(stderr[k].msg = "Skipping path" /\ stderr[k].path = t.displayBase)

\* The clone, whose name -x excludes, was traversed and gave a block; the
\* first positional argument was skipped at its root, and the second one was
\* traversed after it and gave a block.
C13_Witness ==
    /\ LoopOver
    /\ args.g # <<>>
    /\ args.paths = <<PathE, PathD>>
    /\ isExcluded(targetsToProcess[1].displayBase, globalExcludePatterns).excluded
    /\ Logged(Diag("Skipping path", PathE, <<"e">>))
    /\ BlocksOf(targetsToProcess[1]) # {}
    /\ BlocksOf(targetsToProcess[3]) # {}

\* The walk of directory target t can read its root.
RootOk(t) == ~Exists(t.absPath) \/ disk[t.absPath].root = "ok"

\* The pre-check of main skips target t.
RootSkipped(t) == ~Transient(t) /\ isExcluded(Clean(t.displayBase), PolicyOf(t)).excluded

\* File e of directory target t is reachable by the walk, passes the policy
\* and the hidden-entry rule, as all the directories above it do, and passes
\* the content gates.
Survives(t, e) ==
    /\ ~e.isDir
    /\ PassesGates(e)
    /\ ~IsHiddenFile(Name(e))
    /\ ~isExcluded(RelPath(e), PolicyOf(t)).excluded
    /\ \A k \in Ancestors(e) :
           /\ ~IsHiddenDir(e.path[k])
           /\ ~isExcluded(PathAt(e, k), PolicyOf(t)).excluded
           /\ \A d \in TreeOf(t) : d.path = SubSeq(e.path, 1, k) => d.readable

\* The labels of the blocks target t is to give, in pre-order.
ExpectedLabels(t) ==
    IF RootSkipped(t) THEN <<>>
    ELSE IF ~t.isDir
    THEN (IF PassesGates(disk[t.absPath].file)
          THEN << BlockLabel(t.absPath, t.displayBase) >> ELSE <<>>)
    ELSE IF ~RootOk(t) THEN <<>>
    ELSE LET files == InPreOrder({e \in TreeOf(t) : Survives(t, e)}) IN
         [k \in 1..Len(files) |->
             BlockLabel(t.absPath \o <<"/">> \o JoinNames(files[k].path),
                        Clean(t.displayBase \o <<"/">> \o JoinNames(files[k].path)))]

\* When main is done with the buffer: a positional argument that os.Stat
\* does not find is reported and gives no target, and every other one gives a
\* target; a directory target whose root the walk cannot read is reported and
\* has no block, and every other target has all the blocks it is to give; the
\* prompt and the block of the follow-up file are in the buffer.
ErrorsContained ==
    pc = "output" =>
    LET labels == LabelsOfBuffer IN
    /\ \A k \in 1..Len(args.paths) :
           IF Exists(Abs(args.paths[k]))
           THEN \E i \in 1..Len(targetsToProcess) :
                    targetsToProcess[i].absPath = Abs(args.paths[k])
           ELSE /\ Logged(Diag("Error stating path", args.paths[k], <<>>))
                /\ \A i \in 1..Len(targetsToProcess) :
                       targetsToProcess[i].absPath # Abs(args.paths[k])
    /\ \A i \in 1..Len(targetsToProcess) :
           LET t == targetsToProcess[i] IN
           IF t.isDir /\ ~RootOk(t) /\ ~RootSkipped(t)
           THEN /\ Logged(Diag("Error accessing", t.absPath, <<>>))
                /\ BlocksOf(t) = {}
           ELSE \A k \in 1..Len(ExpectedLabels(t)) : ExpectedLabels(t)[k] \in labels
    /\ args.p # <<>> => PromptStarts(OutputBytes) # {}
    /\ (args.f # <<>> /\ FollowUpServed) => FollowUpLabel \in labels

\* The step of a walk whose root cannot be read leaves the buffer as it is,
\* and the run goes on.
RootErrorStep ==
    (pc = "start" /\ disk[absDirPath].root # "ok") =>
        /\ builder' = builder
        /\ pc' \in {"walk", "done"}
        /\ pc' = "walk" => todo' = <<>>

\* C15: a target that cannot be stat'ed or whose root the walk cannot read
\* gives no block and leaves the buffer as it was, and every other target,
\* the prompt and the follow-up file are processed all the same.
C15_TargetErrorsContained == []ErrorsContained /\ [][RootErrorStep]_vars

\* The run is over: the first positional argument was a directory that was
\* gone when the walk began, and the clone before it, the directory after it,
\* the prompt and the follow-up file are in the buffer.
C15_Witness ==
    /\ pc = "output"
    /\ args.g # <<>>
    /\ args.paths = <<PathGone, PathD>>
    /\ Logged(Diag("Error accessing", Abs(PathGone), <<>>))
    /\ BlocksOf(targetsToProcess[1]) # {}
    /\ BlocksOf(targetsToProcess[3]) # {}
    /\ PromptStarts(OutputBytes) # {}
    /\ FollowUpLabel \in LabelsOfBuffer

\* The walk of target t comes to entry e: every directory above it can be
\* read and is neither excluded nor hidden.
Reached(t, e) ==
    \A k \in Ancestors(e) :
        /\ ~IsHiddenDir(e.path[k])
        /\ ~isExcluded(PathAt(e, k), PolicyOf(t)).excluded
        /\ \A d \in TreeOf(t) : d.path = SubSeq(e.path, 1, k) => d.readable

\* Entry e of target t is neither excluded nor hidden.
Kept(t, e) ==
    /\ ~isExcluded(RelPath(e), PolicyOf(t)).excluded
    /\ ~(IF e.isDir THEN IsHiddenDir(Name(e)) ELSE IsHiddenFile(Name(e)))

\* The walk of a directory target has ended.
WalkEnded == pc = "done" /\ tidx >= 1 /\ CurrentTarget.isDir

\* C16: when the walk of a directory has ended, a directory below the root
\* that could not be read was reported, every entry outside such a
\* directory that is neither excluded nor hidden nor beneath an excluded or
\* hidden directory was visited, and every such file that passes the content
\* gates has its block; the walk of a root that could not be read visited
\* nothing.
C16_EntryErrorsContained ==
    WalkEnded =>
    IF disk[absDirPath].root # "ok" THEN visited = <<>>
    ELSE LET t      == CurrentTarget
             labels == LabelsOfBuffer
         IN  \A e \in fs :
                 /\ (e.isDir /\ ~e.readable /\ Reached(t, e) /\ Kept(t, e))
                        => Logged(Diag("Error accessing", AbsPath(e), <<>>))
                 /\ (Reached(t, e) /\ Kept(t, e)) => WasVisited(e)
                 /\ Survives(t, e)
                        => BlockLabel(AbsPath(e), DisplayPath(baseDisplayPath, e)) \in labels

\* The walk of d has ended: k could not be read, and n, which comes after k,
\* was visited and has its block.
C16_Witness ==
    /\ WalkEnded
    /\ absDirPath = Abs(PathD)
    /\ args.x = <<>>
    /\ Logged(Diag("Error accessing", Abs(PathD) \o <<"/", "k">>, <<>>))
    /\ \E i \in 1..Len(visited) : visited[i] = <<"n">>
    /\ BlockLabel(Abs(PathD) \o <<"/", "n">>, <<"d", "/", "n">>) \in LabelsOfBuffer

\* The labels the targets i.. are to give, target after target.
RECURSIVE ExpectedFrom(_)
ExpectedFrom(i) ==
    IF i > Len(targetsToProcess) THEN <<>>
    ELSE ExpectedLabels(targetsToProcess[i]) \o ExpectedFrom(i + 1)

\* File e of target t passes the policy, the hidden-entry rule and the
\* content gates.
PassesAll(t, e) ==
    /\ ~e.isDir
    /\ PassesGates(e)
    /\ ~isExcluded(RelPath(e), PolicyOf(t)).excluded
    /\ \A k \in Ancestors(e) : ~isExcluded(PathAt(e, k), PolicyOf(t)).excluded
    /\ \A k \in 1..Len(e.path) : ~HasPrefix(e.path[k], <<".">>)

\* C18 as stated: in the complete buffer no label stands on more than one
\* opening fence line, and every file of a directory target that passes the
\* policy, the hidden-entry rule and the content gates has its block.
C18_AsStated ==
    pc = "output" =>
    LET bytes  == OutputBytes
        labels == LabelsOfBuffer
    IN  /\ Cardinality(Openings(bytes)) = Cardinality(labels)
        /\ \A i \in 1..Len(targetsToProcess) :
               LET t == targetsToProcess[i] IN
               (t.isDir /\ RootOk(t) /\ ~RootSkipped(t)) =>
                   \A e \in TreeOf(t) :
                       PassesAll(t, e) =>
                           BlockLabel(t.absPath \o <<"/">> \o RelPath(e),
                                      Clean(t.displayBase \o <<"/">> \o RelPath(e))) \in labels

\* C18: the opening fence lines of the complete buffer are, in this order
\* and with nothing else between them, for each target in turn one line for
\* each of its files that the walk reaches and that passes the policy, the
\* hidden-entry rule and the content gates, then one line for the follow-up
\* file if it was served: one block per surviving file and target.
C18_OncePerTarget ==
    pc = "output" =>
    LET bytes == OutputBytes IN
    LabelsAt(bytes, Openings(bytes)) =
        ExpectedFrom(1)
            \o (IF FollowUpDone /\ FollowUpServed THEN <<FollowUpLabel>> ELSE <<>>)

\* The same directory was given twice: its surviving files have two blocks
\* each, and the file in the directory that cannot be read has none.
C18_Witness ==
    /\ pc = "output"
    /\ args.paths = <<PathD, PathD>>
    /\ args.x = <<>>
    /\ Len(ExpectedLabels(targetsToProcess[2])) >= 3
    /\ ExpectedLabels(targetsToProcess[2]) = ExpectedLabels(targetsToProcess[3])
    /\ Cardinality(Openings(OutputBytes)) > Cardinality(LabelsOfBuffer)
    /\ BlockLabel(Abs(PathD) \o <<"/", "k", "/", "a">>, <<"d", "/", "k", "/", "a">>)
           \notin LabelsOfBuffer

\* C19: the buffer of a second run with the same command line over the same
\* disk is, byte for byte, the buffer of the first run, whatever temporary
\* directory each run cloned into.
C19_Deterministic ==
    (pc = "output" /\ previous # <<>>) => builder = previous[1]

\* A second run that cloned a repository and walked a directory is complete.
C19_Witness ==
    /\ pc = "output"
    /\ previous # <<>>
    /\ args.g # <<>>
    /\ args.paths = <<PathD, PathE>>
    /\ Cardinality(Openings(OutputBytes)) >= 8
    /\ builder = previous[1]

\* What the walk that has ended wrote to stderr after its first line.
WalkLog ==
    LET start == CHOOSE i \in 1..Len(stderr) :
                     /\ stderr[i].msg = "Processing directory"
                     /\ \A j \in (i + 1)..Len(stderr) : stderr[j].msg # "Processing directory"
    IN  SubSeq(stderr, start + 1, Len(stderr))

\* The diagnostic the decision on entry e of target t is to give, if the
\* decision keeps e out of the buffer: the message, the path and the pattern.
Decision(t, e) ==
    LET hit == isExcluded(RelPath(e), PolicyOf(t)) IN
    IF hit.excluded THEN << Diag("Skipping excluded path", RelPath(e), hit.pattern) >>
    ELSE IF e.isDir
    THEN IF IsHiddenDir(Name(e)) THEN << Diag("Skipping hidden directory", RelPath(e), <<>>) >>
         ELSE IF ~e.readable THEN << Diag("Error accessing", AbsPath(e), <<>>) >>
         ELSE <<>>
    ELSE IF IsHiddenFile(Name(e)) THEN << Diag("Skipping hidden file", RelPath(e), <<>>) >>
    ELSE IF ~e.readable
    THEN << Diag("Error reading file", DisplayPath(baseDisplayPath, e), <<>>) >>
    ELSE IF TooLarge(e.content)
    THEN << Diag("Skipping large file", DisplayPath(baseDisplayPath, e), <<>>) >>
    ELSE IF isBinary(e.content)
    THEN << Diag("Skipping likely binary file", DisplayPath(baseDisplayPath, e), <<>>) >>
    ELSE <<>>

\* How many lines of the walk's log are the diagnostic diag.
Emitted(diag) == Cardinality({i \in 1..Len(WalkLog) : WalkLog[i] = diag})

\* The decision on e is one the callback takes without a word: e is named
\* .git and is excluded by a pattern or is a hidden directory.
SilentDecision(t, e) ==
    /\ Name(e) = DotGit
    /\ isExcluded(RelPath(e), PolicyOf(t)).excluded \/ e.isDir

\* C20 as stated: when a walk has ended, every entry it reached and kept out
\* of the buffer has exactly one diagnostic that names its path and the
\* matched pattern or the reason.
C20_AsStated ==
    (WalkEnded /\ disk[absDirPath].root = "ok") =>
        \A e \in fs :
            (Reached(CurrentTarget, e) /\ Decision(CurrentTarget, e) # <<>>)
                => Emitted(Decision(CurrentTarget, e)[1]) = 1

\* C20: when a walk has ended, every entry it reached and kept out of the
\* buffer has exactly one diagnostic that names its path and the matched
\* pattern or the reason, unless the entry is named .git and is excluded by a
\* pattern or is a directory: such an entry has none.
C20_DropsReported ==
    (WalkEnded /\ disk[absDirPath].root = "ok") =>
        \A e \in fs :
            (Reached(CurrentTarget, e) /\ Decision(CurrentTarget, e) # <<>>)
                => Emitted(Decision(CurrentTarget, e)[1])
                       = (IF SilentDecision(CurrentTarget, e) THEN 0 ELSE 1)

\* The walk of the clone has ended: the file b was excluded by the pattern
\* of -x and reported, and the directory .git was skipped without a word.
C20_Witness ==
    /\ WalkEnded
    /\ Transient(CurrentTarget)
    /\ Emitted(Diag("Skipping excluded path", <<"b">>, <<"b">>)) = 1
    /\ \E e \in fs : e.path = <<DotGit>> /\ WasVisited(e)
    /\ \A i \in 1..Len(WalkLog) : WalkLog[i].path # DotGit

\* The own name of the target begins with a dot.
HiddenNamed(t) == IsHiddenFile(Base(t.absPath))

\* The label of the block of file e of directory target t.
LabelIn(t, e) ==
    BlockLabel(t.absPath \o <<"/">> \o JoinNames(e.path),
               Clean(t.displayBase \o <<"/">> \o JoinNames(e.path)))

\* C27: when main is done with the buffer, a target whose own name begins
\* with a dot and whose root passes the pre-check was processed like any
\* other: a file that passes the content gates has its block, a directory
\* was walked and every file below it that passes the policy, the
\* hidden-entry rule and the gates has its block, while the hidden entries
\* below it have none.
C27_HiddenRootsProcessed ==
    pc = "output" =>
    LET labels == LabelsOfBuffer IN
    \A i \in 1..Len(targetsToProcess) :
        LET t == targetsToProcess[i] IN
        (HiddenNamed(t) /\ ~RootSkipped(t)) =>
            IF ~t.isDir
            THEN PassesGates(disk[t.absPath].file) =>
                    /\ Logged(Diag("Adding file", t.displayBase, <<>>))
                    /\ BlockLabel(t.absPath, t.displayBase) \in labels
            ELSE /\ Logged(Diag("Processing directory", t.displayBase, <<>>))
                 /\ \A e \in TreeOf(t) :
                        /\ (RootOk(t) /\ Survives(t, e)) => LabelIn(t, e) \in labels
                        /\ (~e.isDir /\ IsHiddenFile(Name(e))) =>
                               LabelIn(t, e) \notin labels

\* The file .env and the directory .h were given as targets: the buffer holds
\* the block of .env and the block of .h/a, and none for .h/.s.
C27_Witness ==
    /\ pc = "output"
    /\ args.paths = <<PathHiddenFile, PathHiddenDir>>
    /\ args.x = <<>>
    /\ LabelsOfBuffer = { <<"e", "n", "v", " ">> \o PathHiddenFile,
                          PathHiddenDir \o <<"/", "a">> }

\* The pattern begins with "/".
Anchored(pattern) == pattern # <<>> /\ pattern[1] = "/"

\* The patterns of policy that do not begin with "/".
RECURSIVE Unanchored(_)
Unanchored(policy) ==
    IF policy = <<>> THEN <<>>
    ELSE (IF Anchored(TrimSpace(policy[1])) THEN <<>> ELSE <<policy[1]>>)
             \o Unanchored(Tail(policy))

\* The anchored pattern reads as naming entry e from the root of the walk.
MeantToHide(pattern, e) ==
    Match(TrimSuffix(Tail(pattern), <<"/">>), RelPath(e)).matched

\* Survives, under a policy given apart.
SurvivesUnder(t, e, policy) ==
    /\ ~e.isDir
    /\ PassesGates(e)
    /\ ~IsHiddenFile(Name(e))
    /\ ~isExcluded(RelPath(e), policy).excluded
    /\ \A k \in Ancestors(e) :
           /\ ~IsHiddenDir(e.path[k])
           /\ ~isExcluded(PathAt(e, k), policy).excluded
           /\ \A d \in TreeOf(t) : d.path = SubSeq(e.path, 1, k) => d.readable

\* C28: a pattern that begins with "/" excludes no entry of a walk: when main
\* is done with the buffer, for every directory target that was walked, no
\* entry of its tree is excluded by an anchored pattern of its policy, and
\* every file that survives the rest of the policy, the hidden-entry rule and
\* the gates has its block, the files the anchored patterns name included.
C28_AnchoredNeverExcludes ==
    pc = "output" =>
    LET labels == LabelsOfBuffer IN
    \A i \in 1..Len(targetsToProcess) :
        LET t == targetsToProcess[i]
            policy == PolicyOf(t)
        IN  (t.isDir /\ ~RootSkipped(t) /\ RootOk(t)) =>
            \A e \in TreeOf(t) :
                /\ \A k \in 1..Len(policy) :
                       Anchored(policy[k]) =>
                           /\ ~patternExcludes(policy[k], RelPath(e), Name(e))
                           /\ ~Logged(Diag("Skipping excluded path", RelPath(e), policy[k]))
                /\ SurvivesUnder(t, e, Unanchored(policy)) => LabelIn(t, e) \in labels

\* Directory d was walked under -x /c/,/a,/*,/ : the files a and c/a, which
\* the anchored patterns name, are in the buffer.
C28_Witness ==
    /\ pc = "output"
    /\ args.paths = <<PathD>>
    /\ \E k \in 1..Len(globalExcludePatterns) : globalExcludePatterns[k] = <<"/", "c", "/">>
    /\ \E e \in TreeOf(targetsToProcess[1]) :
           /\ e.path = << <<"a">> >>
           /\ MeantToHide(<<"/", "a">>, e)
           /\ LabelIn(targetsToProcess[1], e) \in LabelsOfBuffer
    /\ \E e \in TreeOf(targetsToProcess[1]) :
           /\ e.path = << <<"c">>, <<"a">> >>
           /\ LabelIn(targetsToProcess[1], e) \in LabelsOfBuffer

\* A pattern of the target's own ignore file excludes its cleaned display root.
SelfIgnored(t) ==
    /\ t.isDir
    /\ LET own  == readGitIgnore(t.absPath)
           root == Clean(t.displayBase)
       IN  \E k \in 1..Len(own) : patternExcludes(own[k], root, Base(root))

\* C29: when main is done with the buffer, every directory target that is
\* not in the temporary directory and whose own ignore file holds a pattern
\* that matches its display root, by full path or by base name, was reported
\* as skipped, was not walked and has no block.
C29_OwnIgnoreFileSkipsRoot ==
    pc = "output" =>
    LET labels == LabelsOfBuffer IN
    \A i \in 1..Len(targetsToProcess) :
        LET t == targetsToProcess[i] IN
        (SelfIgnored(t) /\ ~Transient(t)) =>
            /\ \E k \in 1..Len(stderr) :
                   stderr[k].msg = "Skipping path" /\ stderr[k].path = t.displayBase
            /\ ~Logged(Diag("Processing directory", t.displayBase, <<>>))
            /\ \A e \in TreeOf(t) : LabelIn(t, e) \notin labels

\* /v/i, whose ignore file holds the pattern i, was skipped on its base name
\* with no -x given; /tmp/i, with the same ignore file, was walked and gave
\* the block of its file a.
C29_Witness ==
    /\ pc = "output"
    /\ args.x = <<>>
    /\ args.paths = <<PathIgnoredAbs, PathIgnoredTemp>>
    /\ SelfIgnored(targetsToProcess[1])
    /\ SelfIgnored(targetsToProcess[2])
    /\ Logged(Diag("Skipping path", PathIgnoredAbs, <<"i">>))
    /\ LabelsOfBuffer = { PathIgnoredTemp \o <<"/", "a">> }

\* main is about to call processFile on the -f file.
FollowUpIsFile ==
    /\ pc = "followup"
    /\ args.f # <<>>
    /\ Exists(Abs(args.f))
    /\ disk[Abs(args.f)].kind # "dir"

\* The block of the -f file, without any separator.
FollowUpBlock ==
    LET content == disk[Abs(args.f)].file.content IN
    Bytes(Fence \o Header(Abs(args.f), DisplayBase(args.f)) \o <<"\n">>)
        \o content
        \o TrailingNewline(content)
        \o Bytes(Fence \o <<"\n">>)

\* The step of main on a -f file: to an empty buffer nothing but the block is
\* added, and that when the file passes the gates; to a buffer that is not
\* empty two newlines are added when the file is rejected, and four newlines
\* and the block when it passes.  Neither the policy nor the name of the
\* file has a part in it.
FollowUpStep ==
    FollowUpIsFile =>
        LET passes == PassesGates(disk[Abs(args.f)].file) IN
        builder' =
            IF builder = <<>>
            THEN (IF passes THEN FollowUpBlock ELSE <<>>)
            ELSE builder \o (IF passes
                             THEN Bytes(<<"\n", "\n", "\n", "\n">>) \o FollowUpBlock
                             ELSE Bytes(<<"\n", "\n">>))

\* C30: for the -f file main writes the separator whenever the buffer is not
\* empty, before processFile and whatever processFile decides: a rejected
\* file leaves the buffer ending with that separator, a serialized one has
\* its block after four newlines, and the file is tested against neither
\* the exclusion policy nor the hidden-entry rule.
C30_FollowUpSeparator == [][FollowUpStep]_vars

\* The -f file was binary and the buffer held the blocks of e: the buffer
\* ends with the closing fence of the last block and the separator.
C30_Witness ==
    /\ pc = "output"
    /\ args.paths = <<PathE>>
    /\ args.p = <<>>
    /\ args.f = PathBinary
    /\ Logged(Diag("Skipping likely binary file", PathBinary, <<>>))
    /\ Len(builder) > 4
    /\ SubSeq(OutputBytes, Len(builder) - 3, Len(builder)) = <<"BQ", "\n", "\n", "\n">>

-----------------------------------------------------------------------------
(* Termination of main (SpecMain).                                         *)

\* main has returned, or the process has left through os.Exit.
Terminated == pc \in {"exited", "fatal", "usage"}

\* The exit status: 0 when main returns, 1 from log.Fatal and os.Exit(1).
ExitStatus == IF pc = "exited" THEN 0 ELSE 1

\* A temporary clone directory made by -g is on the disk.
TempDirLeft == \E tempDir \in TempNames : Exists(tempDir)

\* C21: whenever -g has made a temporary clone directory, the directory is
\* gone when the process has terminated, whichever way it terminated.
C21_TempDirRemoved == Terminated => ~TempDirLeft

\* The part of C21 that holds: a run in which main returns leaves no
\* temporary directory behind.
C21_RemovedOnReturn == pc = "exited" => ~TempDirLeft

\* The diagnostic of a missing git command.
GitMissingDiag == Diag("'git' command not found", <<>>, <<>>)

\* The walk could not read the root of some target and said so.
RootErrorLogged ==
    \E i \in 1..Len(targetsToProcess) :
        Logged(Diag("Error accessing", targetsToProcess[i].absPath, <<>>))

\* C22: a run in which a target root was unreadable, or in which -g found
\* no git command, terminates with a non-zero exit status once the
\* diagnostic is out.
C22_FatalErrorsExitNonZero ==
    (Terminated /\ (RootErrorLogged \/ Logged(GitMissingDiag))) => ExitStatus # 0

\* The part of C22 that holds: when -g finds no git command the diagnostic
\* is the last thing written and the process exits with status 1.
C22_MissingToolExits ==
    Logged(GitMissingDiag) =>
        /\ pc = "fatal"
        /\ ExitStatus = 1
        /\ stderr[Len(stderr)] = GitMissingDiag
        /\ builder = <<>>

-----------------------------------------------------------------------------
(* Properties of getLanguageHint (SpecHint).                               *)

\* The extension of a lower-cased name: its suffix that begins with its last
\* dot, or nothing.
ExtensionOf(name) ==
    LET dotted == { i \in 1..Len(name) :
                       /\ name[i] = "."
                       /\ \A j \in (i + 1)..Len(name) : name[j] # "." }
    IN  IF dotted = {} THEN <<>>
        ELSE SubSeq(name, CHOOSE i \in dotted : TRUE, Len(name))

\* The hint the rule gives a file name.
HintByRule(name) ==
    LET lower == ToLower(name)
        ext   == ExtensionOf(lower)
        caddy == <<"c", "a", "d", "d", "y", "f", "i", "l", "e">>
        docker == <<"d", "o", "c", "k", "e", "r", "f", "i", "l", "e">>
        container == <<"c", "o", "n", "t", "a", "i", "n", "e", "r", "f", "i", "l", "e">>
        make == <<"m", "a", "k", "e", "f", "i", "l", "e">>
    IN  CASE lower = caddy -> caddy
          [] lower \in {docker, container} -> docker
          [] lower = make -> make
          [] OTHER ->
               IF \E i \in 1..Len(ExtensionHints) : ExtensionHints[i][1] = ext
               THEN ExtensionHints[CHOOSE i \in 1..Len(ExtensionHints) :
                                       ExtensionHints[i][1] = ext][2]
               ELSE IF ext = <<>> THEN <<>>
               ELSE SubSeq(ext, 2, Len(ext))

\* C23: the hint of a file is the special hint when its lower-cased base name
\* is a special name, else the table's value for its lower-cased extension,
\* else the extension without its dot, and empty without an extension; the
\* directory the file is in has no part in it.
C23_LanguageHint == pc = "hinted" => ret.hint = HintByRule(call.name)

\* A special name in mixed case, in a directory whose name ends in ".go",
\* got the special hint.
C23_Witness ==
    /\ pc = "hinted"
    /\ call.dir = <<"d", ".", "g", "o", "/">>
    /\ call.name = <<"M", "a", "k", "e", "f", "i", "l", "e">>
    /\ ret.hint = <<"m", "a", "k", "e", "f", "i", "l", "e">>

-----------------------------------------------------------------------------
(* Properties of readGitIgnore (SpecIgnore).                               *)

\* The lines of content, each without its newline, however long they are.
RECURSIVE LinesOf(_, _, _)
LinesOf(content, line, out) ==
    IF content = <<>> THEN (IF line = <<>> THEN out ELSE Append(out, line))
    ELSE LET r == Head(content) IN
         IF r.b = "\n"
         THEN LinesOf((IF r.n > 1 THEN << [b |-> "\n", n |-> r.n - 1] >> ELSE <<>>)
                          \o Tail(content),
                      <<>>, Append(out, line))
         ELSE LinesOf(Tail(content), Append(line, r), out)

\* The ignore file at the root of the directory, if it is a file that opens.
RootIgnoreFiles ==
    {e \in disk[absDirPath].tree : e.path = <<GitIgnoreName>> /\ ~e.isDir /\ e.readable}

\* The trimmed lines of the ignore file, in file order, that are not empty
\* and begin with neither # nor !; none when there is no file to open.
QualifyingLines ==
    IF RootIgnoreFiles = {} THEN <<>>
    ELSE KeepPatterns(LinesOf((CHOOSE e \in RootIgnoreFiles : TRUE).content, <<>>, <<>>))

\* C14: readGitIgnore returns, in file order, exactly the trimmed lines of
\* the ignore file at the root of the directory that are not empty and begin
\* with neither # nor !, and the empty list when the file is missing or
\* cannot be opened; an ignore file in a subdirectory adds nothing.
C14_LoaderReturnsQualifyingLines ==
    pc = "ignored" =>
        /\ Len(ret.patterns) = Len(QualifyingLines)
        /\ ret.patterns = QualifyingLines

====
